---- MODULE Spec2Model ----
(***************************************************************************)
(* A model of auto_arch.py: the validated configuration cells (Field), the *)
(* Profile built from them, its dump/load to a JSON document, the global   *)
(* log queue the validators publish to, the curses session (CursesApp),    *)
(* its select and input primitives and its device dialog, the course of    *)
(* the process from start to exit, the installation steps and the          *)
(* generation of an example configuration.                                 *)
(*                                                                         *)
(* Text is a sequence of characters.  An ASCII character is the one-letter *)
(* string holding it; three characters outside that range are named:       *)
(*   "TAB"    U+0009, ASCII but not printable                              *)
(*   "sup2"   U+00B2 SUPERSCRIPT TWO, numeric but no decimal digit         *)
(*   "eacute" U+00E9, a lowercase letter outside ASCII                     *)
(***************************************************************************)
EXTENDS Integers, Sequences, FiniteSets, TLC

VARIABLES
    value,   \* Field._value of the ten Field objects made at lines 364-373
    log,     \* the global log queue (line 20), oldest message first
    file,    \* what is stored at profile_path
    pc,      \* where the running scenario stands
    arg,     \* the text handed to a validator (validator scenarios), the
             \* command line (process scenarios), the Field edited (input)
    op,      \* the last completed operation: its name, inputs and result
    nOps,    \* how many operations have completed
    dumped,  \* whether dump_profile has written, the Field values it was
             \* given, and the package list file
    chan,    \* the log queue's history: what was put, what get_next_log returned, log_file
    term,    \* the terminal: curses.LINES, curses.COLS and what it is capable of
    app,     \* the attributes of the CursesApp object
    calls,   \* the curses calls made so far, in order
    proc,    \* the process: its atexit hooks, whether it has exited, its exit
             \* code, the installation steps it ran
    sel      \* the running call of CursesApp.select or input: its arguments
             \* and locals

\* what the Field and Profile scenarios leave alone
session == <<chan, term, app, calls, proc, sel>>

vars == <<value, log, file, pc, arg, op, nOps, dumped, chan, term, app, calls, proc, sel>>

----------------------------------------------------------------------------
(* Bounds of the model *)

MaxLen == 3        \* longest enumerated validator input
MaxOps == 2        \* operations of one Field/Profile scenario
MaxDocKeys == 2    \* keys of one profile document

----------------------------------------------------------------------------
(* Characters and the str methods the validators use *)

LowerAscii == {"a","b","c","d","e","f","g","h","i","j","k","l","m",
               "n","o","p","q","r","s","t","u","v","w","x","y","z"}
UpperAscii == {"A","B","C","D","E","F","G","H","I","J","K","L","M",
               "N","O","P","Q","R","S","T","U","V","W","X","Y","Z"}
DecimalAscii == {"0","1","2","3","4","5","6","7","8","9"}

IsDecimalChar(c) == c \in DecimalAscii
IsNumericChar(c) == c \in DecimalAscii \cup {"sup2"}
IsAlphaChar(c) == c \in LowerAscii \cup UpperAscii \cup {"eacute"}
IsAlnumChar(c) == IsAlphaChar(c) \/ IsNumericChar(c)
IsLowerChar(c) == c \in LowerAscii \cup {"eacute"}
IsUpperChar(c) == c \in UpperAscii
IsPrintableChar(c) == c # "TAB"
IsAsciiChar(c) == c \notin {"sup2", "eacute"}

Chars(s) == {s[i] : i \in 1..Len(s)}

\* str.isnumeric: at least one character and all of them numeric
isnumeric(s) == Len(s) > 0 /\ \A c \in Chars(s) : IsNumericChar(c)
\* str.isalnum: at least one character and all of them alphanumeric
isalnum(s) == Len(s) > 0 /\ \A c \in Chars(s) : IsAlnumChar(c)
\* str.islower: at least one cased character and no uppercase one
islower(s) == (\E c \in Chars(s) : IsLowerChar(c))
              /\ \A c \in Chars(s) : ~IsUpperChar(c)
\* str.isprintable and str.isascii: true of the empty string
isprintable(s) == \A c \in Chars(s) : IsPrintableChar(c)
isascii(s) == \A c \in Chars(s) : IsAsciiChar(c)
\* str.replace(ch, "")
Remove(s, ch) == SelectSeq(s, LAMBDA c : c # ch)
\* str.startswith(ch)
startswith(s, ch) == Len(s) > 0 /\ s[1] = ch

----------------------------------------------------------------------------
(* Messages and the log queue *)

\* A Message: its level, the fixed part of its text, and the profile key the
\* text goes on to name ("" when it names none)
error(msg) == [level |-> "error", raw |-> msg, key |-> ""]
warning(msg, key) == [level |-> "warning", raw |-> msg, key |-> key]

Accept == [ok |-> TRUE, msgs |-> <<>>]
Reject(msg) == [ok |-> FALSE, msgs |-> <<error(msg)>>]

----------------------------------------------------------------------------
(* The validators: the result and the messages published, in order *)

HostnameMaxLen == 64
NameMaxLen == 32

default_validator(s) == Accept

numeric_validator(s) ==
    IF ~isnumeric(s) THEN Reject("The given value is not numeric")
    ELSE Accept

boot_label_validator(s) ==
    IF s = <<>> THEN Reject("Boot labels must contain at least one character")
    ELSE IF ~(isprintable(s) /\ isascii(s))
    THEN Reject("Boot labels cannot contain non-printable or non-ascii characters")
    ELSE Accept

hostname_validator(s) ==
    IF s = <<>> THEN Reject("Hostnames must contain at least one character")
    ELSE IF Len(s) > HostnameMaxLen
    THEN Reject("Hostnames cannot be longer than 64 characters")
    ELSE IF ~(islower(Remove(s, "-")) /\ isalnum(Remove(s, "-")))
    THEN Reject("Hostnames may only contain lowercase letters, numbers, and hyphens")
    ELSE Accept

\* name_validator with the early returns lost: every failed constraint reports
name_validator_all(s) ==
    LET m1 == IF s = <<>>
              THEN <<error("Names must contain at least one character")>> ELSE <<>>
        m2 == IF isnumeric(s)
              THEN <<error("Names cannot be entirely numeric")>> ELSE <<>>
        m3 == IF startswith(s, "-")
              THEN <<error("Names cannot start with a hyphen")>> ELSE <<>>
        m4 == IF Len(s) > NameMaxLen
              THEN <<error("Names cannot be longer than 32 characters")>> ELSE <<>>
        m5 == IF ~isalnum(Remove(Remove(s, "-"), "_"))
              THEN <<error("Names may only contain letters, numbers, underscores, and hyphens")>>
              ELSE <<>>
        all == m1 \o m2 \o m3 \o m4 \o m5
    IN  [ok |-> all = <<>>, msgs |-> all]

name_validator(s) ==
    IF s = <<>> THEN Reject("Names must contain at least one character")
    ELSE IF isnumeric(s) THEN Reject("Names cannot be entirely numeric")
    ELSE IF startswith(s, "-") THEN Reject("Names cannot start with a hyphen")
    ELSE IF Len(s) > NameMaxLen
    THEN Reject("Names cannot be longer than 32 characters")
    ELSE IF ~isalnum(Remove(Remove(s, "-"), "_"))
    THEN Reject("Names may only contain letters, numbers, underscores, and hyphens")
    ELSE Accept

password_validator(s) ==
    IF s = <<>> THEN Reject("Passwords must contain at least one character")
    ELSE IF ~(isprintable(s) /\ isascii(s))
    THEN Reject("Passwords cannot contain non-printable or non-ascii characters")
    ELSE Accept

ConstrainedValidators == {"numeric", "boot_label", "hostname", "name", "password"}

Validate(kind, s) ==
    CASE kind = "numeric" -> numeric_validator(s)
      [] kind = "boot_label" -> boot_label_validator(s)
      [] kind = "hostname" -> hostname_validator(s)
      [] kind = "name" -> name_validator(s)
      [] kind = "password" -> password_validator(s)
      [] OTHER -> default_validator(s)

----------------------------------------------------------------------------
(* Values: None, a bool, an int (sign and decimal digits, of any size) or  *)
(* a str.  Every value is a record of the same four fields; t says which   *)
(* of the others is meant.                                                 *)

NoneV == [t |-> "none", b |-> FALSE, d |-> <<>>, s |-> <<>>]
BoolV(x) == [t |-> "bool", b |-> x, d |-> <<>>, s |-> <<>>]
IntV(negative, digits) == [t |-> "int", b |-> negative, d |-> digits, s |-> <<>>]
StrV(text) == [t |-> "str", b |-> FALSE, d |-> <<>>, s |-> text]

DigitChars == <<"0","1","2","3","4","5","6","7","8","9">>

\* str(value)
Str(v) ==
    CASE v.t = "none" -> <<"N","o","n","e">>
      [] v.t = "bool" -> IF v.b THEN <<"T","r","u","e">> ELSE <<"F","a","l","s","e">>
      [] v.t = "int" -> (IF v.b THEN <<"-">> ELSE <<>>)
                        \o [i \in 1..Len(v.d) |-> DigitChars[v.d[i] + 1]]
      [] OTHER -> v.s

----------------------------------------------------------------------------
(* Field and Profile *)

FieldOrder == <<"network_install", "min_device_bytes", "device", "boot_label",
                "time_zone", "hostname", "root_password", "username",
                "user_password", "sudo_group">>
FieldNames == {FieldOrder[i] : i \in 1..Len(FieldOrder)}

\* the validator each Field is constructed with
ValidatorOf(f) ==
    CASE f = "min_device_bytes" -> "numeric"
      [] f = "boot_label" -> "boot_label"
      [] f = "hostname" -> "hostname"
      [] f \in {"root_password", "user_password"} -> "password"
      [] f \in {"username", "sudo_group"} -> "name"
      [] OTHER -> "default"

\* the types each Field is constructed with
DeclaredTypes(f) ==
    CASE f = "network_install" -> {"bool"}
      [] f = "min_device_bytes" -> {"int"}
      [] f = "device" -> {"none", "str"}
      [] OTHER -> {"str"}

\* the default value each Field is constructed with; int(10e9) is 10000000000
Defaults ==
    [f \in FieldNames |->
       CASE f = "network_install" -> BoolV(TRUE)
         [] f = "min_device_bytes" -> IntV(FALSE, <<1,0,0,0,0,0,0,0,0,0,0>>)
         [] f = "device" -> NoneV
         [] f = "boot_label" -> StrV(<<"A","r","c","h"," ","L","i","n","u","x">>)
         [] f = "time_zone" ->
              StrV(<<"A","m","e","r","i","c","a","/","D","e","n","v","e","r">>)
         [] f = "hostname" -> StrV(<<"a","r","c","h">>)
         [] f = "root_password" -> StrV(<<"r","o","o","t">>)
         [] f = "username" -> StrV(<<"m","a","i","n">>)
         [] f = "user_password" -> StrV(<<"m","a","i","n">>)
         [] OTHER -> StrV(<<"w","h","e","e","l">>)]

\* before any dump_profile; packages is the file at package_list_path
NotDumped == [ok |-> FALSE, value |-> Defaults,
              packages |-> [kind |-> "absent", items |-> <<>>]]

\* Field.get_str
get_str(v) == IF v.t = "none" THEN <<>> ELSE Str(v)

\* Field.set with the validator's verdict ignored when storing
Field_set_unchecked(vals, f, v) ==
    LET r == Validate(ValidatorOf(f), Str(v))
    IN  [value |-> [vals EXCEPT ![f] = v], ret |-> r.ok, msgs |-> r.msgs]

\* Field.set on field f of the Fields vals: the Fields after it, what it
\* returns and what the validator published
Field_set(vals, f, v) ==
    LET r == Validate(ValidatorOf(f), Str(v))
    IN  [value |-> IF r.ok THEN [vals EXCEPT ![f] = v] ELSE vals,
         ret |-> r.ok,
         msgs |-> r.msgs]

----------------------------------------------------------------------------
(* The profile document.  A JSON scalar is its kind and, for a number or   *)
(* a string, its text.                                                     *)

JsonOf(v) ==
    CASE v.t = "none" -> [j |-> "null", text |-> <<>>]
      [] v.t = "bool" -> [j |-> IF v.b THEN "true" ELSE "false", text |-> <<>>]
      [] v.t = "int" -> [j |-> "number", text |-> Str(v)]
      [] OTHER -> [j |-> "string", text |-> v.s]

DigitOf(c) == CHOOSE n \in 0..9 : DigitChars[n + 1] = c

FromJson(jv) ==
    CASE jv.j = "null" -> NoneV
      [] jv.j = "true" -> BoolV(TRUE)
      [] jv.j = "false" -> BoolV(FALSE)
      [] jv.j = "number" ->
           LET negative == startswith(jv.text, "-")
               body == IF negative THEN Tail(jv.text) ELSE jv.text
           IN  IntV(negative, [i \in 1..Len(body) |-> DigitOf(body[i])])
      [] OTHER -> StrV(jv.text)

\* asdict(profile) goes over the dataclass fields of Profile, the annotated
\* class attributes: Profile annotates none of its ten
DataclassFields == {}

Absent == [kind |-> "absent", items |-> <<>>]
Malformed == [kind |-> "malformed", items |-> <<>>]
Array == [kind |-> "array", items |-> <<>>]
Object(items) == [kind |-> "object", items |-> items]

DocKeys(doc) == {doc.items[i].key : i \in 1..Len(doc.items)}

\* dump_profile: what it returns, the file after it and what it published
dump_profile(vals, before, writable) ==
    LET keys == SelectSeq(FieldOrder, LAMBDA f : f \in DataclassFields)
        json_profile == [i \in 1..Len(keys) |->
                           [key |-> keys[i], jv |-> JsonOf(vals[keys[i]])]]
    IN  IF writable
        THEN [ret |-> TRUE, file |-> Object(json_profile), msgs |-> <<>>]
        ELSE [ret |-> FALSE, file |-> before,
              msgs |-> <<error("Failed to write the profile")>>]

\* names other than the ten Fields that hasattr finds on a Profile instance
OtherAttributes == {"__doc__", "__class__", "__init__", "__eq__", "__dict__"}

LoadFailed(vals, msgs) ==
    [value |-> vals, ret |-> "none",
     msgs |-> msgs \o <<error("Failed to read the profile")>>]

RECURSIVE LoadItems(_, _, _, _)
LoadItems(vals, items, i, msgs) ==
    IF i > Len(items) THEN [value |-> vals, ret |-> "profile", msgs |-> msgs]
    ELSE LET key == items[i].key
             v == FromJson(items[i].jv)
         IN  IF key \in FieldNames
             THEN LET r == Field_set(vals, key, v)
                  IN  IF r.ret
                      THEN LoadItems(r.value, items, i + 1, msgs \o r.msgs)
                      ELSE IF v.t = "str"
                      THEN LoadItems(r.value, items, i + 1,
                             msgs \o r.msgs \o
                             <<warning("The given value is invalid for the cooresponding field", key)>>)
                      \* str + value raises for a value that is no str
                      ELSE LoadFailed(r.value, msgs \o r.msgs)
             ELSE IF key \in OtherAttributes
             \* getattr gives an object with no set method
             THEN LoadFailed(vals, msgs)
             ELSE LoadItems(vals, items, i + 1,
                    msgs \o <<warning("Unrecognized field in profile", key)>>)

\* load_profile: the Fields after it, whether it returns a Profile, and what
\* it published.  Profile() makes no Field: the instance reads the class's.
load_profile(vals, content) ==
    IF content.kind # "object" THEN LoadFailed(vals, <<>>)
    ELSE LoadItems(vals, content.items, 1, <<>>)

----------------------------------------------------------------------------
(* The log channel, terminal, session and process before anything has used *)
(* them; the Field and Profile scenarios leave them so.                    *)

\* queue.Queue() at line 20 is empty and log_file is None (line 21)
NoChan == [published |-> <<>>, drained |-> <<>>, open |-> FALSE,
           written |-> <<>>, mark |-> -1]

\* colors: whether curses.init_pair works on the terminal; cursor: whether
\* curses.curs_set does
NoTerm == [LINES |-> 0, COLS |-> 0, colors |-> TRUE, cursor |-> TRUE]

\* no CursesApp has been constructed
NoApp == [made |-> FALSE, good |-> FALSE, clean |-> FALSE,
          lines |-> 0, cols |-> 0, line_origin |-> 0, col_origin |-> 0,
          border |-> <<>>, win |-> <<>>]

\* steps lists the installation steps run, each with what it reported
NoProc == [atexit |-> <<>>, exited |-> FALSE, code |-> 0, steps |-> <<>>]

\* no select is running: what a select returned is done, whether it was
\* None, and the index otherwise
NoRet == [done |-> FALSE, none |-> FALSE, index |-> 0]
NoSel == [items |-> <<>>, cursor_index |-> 0, accepts |-> {}, frames |-> 0,
         first |-> 0, validated |-> <<>>, outer |-> <<>>, fits |-> TRUE,
         response |-> <<>>,
          ret |-> NoRet]

NoSession ==
    /\ chan = NoChan
    /\ term = NoTerm
    /\ app = NoApp
    /\ calls = <<>>
    /\ proc = NoProc
    /\ sel = NoSel

----------------------------------------------------------------------------
(* Validator scenarios: one validator applied to one text *)

ValAlphabet == {"a", "A", "1", "-", "_", "!", "sup2", "TAB"}

Texts(alphabet, n) == UNION {[1..k -> alphabet] : k \in 0..n}
Rep(c, n) == [i \in 1..n |-> c]

\* every text up to MaxLen, and texts at and just past the two length limits
ValInputs ==
    Texts(ValAlphabet, MaxLen)
    \cup {Rep("a", n) : n \in {NameMaxLen, NameMaxLen + 1,
                               HostnameMaxLen, HostnameMaxLen + 1}}
    \cup {Rep("1", HostnameMaxLen) \o <<"a">>}

ValInit ==
    /\ arg \in ValInputs
    /\ pc = "call"
    /\ log = <<>>
    /\ op = [name |-> "none"]
    /\ value = Defaults
    /\ file = Absent
    /\ nOps = 0
    /\ dumped = NotDumped
    /\ NoSession

CallValidator(kind) ==
    /\ pc = "call"
    /\ LET r == Validate(kind, arg)
       IN  /\ log' = log \o r.msgs
           /\ op' = [name |-> "validate", kind |-> kind, ret |-> r.ok]
    /\ pc' = "done"
    /\ UNCHANGED <<value, file, arg, nOps, dumped, session>>

CallNumeric == CallValidator("numeric")
CallBootLabel == CallValidator("boot_label")
CallHostname == CallValidator("hostname")
CallName == CallValidator("name")
CallPassword == CallValidator("password")

ValNext ==
    \/ CallNumeric
    \/ CallBootLabel
    \/ CallHostname
    \/ CallName
    \/ CallPassword

SpecValidators == ValInit /\ [][ValNext]_vars

Called(kind) == pc = "done" /\ op.name = "validate" /\ op.kind = kind

----------------------------------------------------------------------------
(* Field and Profile scenarios: the callers of Field.set, load and dump *)

\* the fields interactive_conf edits with CursesApp.input
InputFields == {"min_device_bytes", "boot_label", "hostname", "root_password",
                "username", "user_password", "sudo_group"}

\* texts CursesApp.input can end with: the keys typed make any text
Responses == {<<>>, <<"7">>, <<"a">>, <<"A">>, <<"-", "a">>, <<"TAB">>, <<"sup2">>}

DevicePaths == {<<"/","d","e","v","/","s","d","a">>}
TimeZones == {<<"U","T","C">>}

\* one Field.set made by a caller
DoSet(via, f, v) ==
    LET r == Field_set(value, f, v)
    IN  /\ value' = r.value
        /\ log' = log \o r.msgs
        /\ op' = [name |-> "set", via |-> via, field |-> f, given |-> v,
                  ret |-> r.ret, old |-> value]
        /\ nOps' = nOps + 1
        /\ UNCHANGED <<file, arg, dumped, session>>

\* CursesApp.input on the confirm key: field.set(response)
Input == \E f \in InputFields, response \in Responses :
             DoSet("input", f, StrV(response))

\* interactive_conf: profile.network_install.set(bool(selection_index))
SetNetworkInstall == \E selection_index \in {0, 1} :
                         DoSet("controller", "network_install",
                               BoolV(selection_index # 0))

\* profile.device.set(get_device(...)): a device path, or None
SetDevice == \E d \in {NoneV} \cup {StrV(p) : p \in DevicePaths} :
                 DoSet("controller", "device", d)

\* interactive_conf: profile.time_zone.set(new_time_zone)
SetTimeZone == \E tz \in TimeZones : DoSet("controller", "time_zone", StrV(tz))

AnySet == Input \/ SetNetworkInstall \/ SetDevice \/ SetTimeZone

\* custom_profile = load_profile(profile_path)
DoLoad ==
    LET r == load_profile(value, file)
    IN  /\ value' = r.value
        /\ log' = log \o r.msgs
        /\ op' = [name |-> "load", ret |-> r.ret, old |-> value,
                  published |-> r.msgs]
        /\ nOps' = nOps + 1
        /\ UNCHANGED <<file, arg, dumped, session>>

\* dump_profile(profile, profile_path)
DoDump ==
    \E writable \in BOOLEAN :
        LET r == dump_profile(value, file, writable)
        IN  /\ file' = r.file
            /\ log' = log \o r.msgs
            /\ op' = [name |-> "dump", ret |-> r.ret]
            /\ dumped' = [dumped EXCEPT !.ok = r.ret, !.value = value]
            /\ nOps' = nOps + 1
            /\ UNCHANGED <<value, arg, session>>

\* the values a profile document gives and the keys it gives them to
DocValues == {[j |-> "true", text |-> <<>>],
              [j |-> "number", text |-> <<"5">>],
              [j |-> "string", text |-> <<"n","1">>]}
DocKeyNames == {"hostname", "min_device_bytes", "network_install",
                "bogus", "__doc__"}
DocEntries == [key : DocKeyNames, jv : DocValues]

DistinctKeys(items) ==
    \A i, j \in 1..Len(items) : i # j => items[i].key # items[j].key

\* the documents of at most n keys, and the files that hold no JSON object
Files(n) ==
    {Absent, Malformed, Array}
    \cup {Object(items) :
            items \in {s \in UNION {[1..k -> DocEntries] : k \in 0..n} :
                         DistinctKeys(s)}}

SampleFiles ==
    {Absent,
     Object(<<>>),
     Object(<<[key |-> "min_device_bytes", jv |-> [j |-> "string", text |-> <<"n","1">>]],
              [key |-> "hostname", jv |-> [j |-> "string", text |-> <<"n","1">>]]>>),
     Object(<<[key |-> "network_install", jv |-> [j |-> "string", text |-> <<"n","1">>]],
              [key |-> "hostname", jv |-> [j |-> "number", text |-> <<"5">>]]>>),
     Object(<<[key |-> "hostname", jv |-> [j |-> "string", text |-> <<"n","1">>]],
              [key |-> "__doc__", jv |-> [j |-> "true", text |-> <<>>]],
              [key |-> "username", jv |-> [j |-> "string", text |-> <<"n","1">>]]>>)}

(* Spec: up to MaxOps operations on the Fields, in any order *)

Init ==
    /\ value = Defaults
    /\ log = <<>>
    /\ file \in SampleFiles
    /\ pc = "run"
    /\ arg = <<>>
    /\ op = [name |-> "none"]
    /\ nOps = 0
    /\ dumped = NotDumped
    /\ NoSession

Running == pc = "run" /\ nOps < MaxOps /\ pc' = pc

RunInput == Running /\ Input
RunSetNetworkInstall == Running /\ SetNetworkInstall
RunSetDevice == Running /\ SetDevice
RunSetTimeZone == Running /\ SetTimeZone
RunLoad == Running /\ DoLoad

Next ==
    \/ RunInput
    \/ RunSetNetworkInstall
    \/ RunSetDevice
    \/ RunSetTimeZone
    \/ RunLoad

Spec == Init /\ [][Next]_vars

(* SpecLoad: one load of any document, after at most one earlier set *)

LoadInit ==
    /\ value = Defaults
    /\ log = <<>>
    /\ file \in Files(MaxDocKeys)
    /\ pc = "start"
    /\ arg = <<>>
    /\ op = [name |-> "none"]
    /\ nOps = 0
    /\ dumped = NotDumped
    /\ NoSession

EarlierSet == pc = "start" /\ pc' = "primed" /\ AnySet
LoadFile == pc \in {"start", "primed"} /\ pc' = "loaded" /\ DoLoad

LoadNext == EarlierSet \/ LoadFile

SpecLoad == LoadInit /\ [][LoadNext]_vars

(* SpecRoundTrip: sets, then a dump, then a load in a new process *)

RoundTripInit ==
    /\ value = Defaults
    /\ log = <<>>
    /\ file = Absent
    /\ pc = "edit"
    /\ arg = <<>>
    /\ op = [name |-> "none"]
    /\ nOps = 0
    /\ dumped = NotDumped
    /\ NoSession

EditSet == pc = "edit" /\ nOps < MaxOps /\ pc' = pc /\ AnySet
Dump == pc = "edit" /\ pc' = "dumped" /\ DoDump
\* a new process: the class body makes the ten Fields anew, the queue is empty
NewProcess ==
    /\ pc = "dumped"
    /\ pc' = "fresh"
    /\ value' = Defaults
    /\ log' = <<>>
    /\ op' = [name |-> "none"]
    /\ UNCHANGED <<file, arg, nOps, dumped, session>>
LoadDumped == pc = "fresh" /\ pc' = "loaded" /\ DoLoad

RoundTripNext == EditSet \/ Dump \/ NewProcess \/ LoadDumped

SpecRoundTrip == RoundTripInit /\ [][RoundTripNext]_vars

----------------------------------------------------------------------------
(* The log channel: log.put by the five publishers, log.get_nowait by      *)
(* get_next_log.  queue.Queue takes its mutex for every put and get, so    *)
(* each is one step and concurrent callers interleave.                     *)

MaxPublished == 3  \* messages put during one channel scenario

Levels == {"success", "error", "warning", "info", "verbose"}

success(msg) == [level |-> "success", raw |-> msg, key |-> ""]
info(msg) == [level |-> "info", raw |-> msg, key |-> ""]
verbose(msg) == [level |-> "verbose", raw |-> msg, key |-> ""]

\* the Message each publisher builds
MessageOf(level, msg) ==
    CASE level = "success" -> success(msg)
      [] level = "error" -> error(msg)
      [] level = "warning" -> warning(msg, "")
      [] level = "info" -> info(msg)
      [] level = "verbose" -> verbose(msg)

\* a put that gives up when the queue holds an item already
put_bounded(queue, item) == IF queue = <<>> THEN <<item>> ELSE queue

\* Queue.put(item, block=False): Queue() has no maxsize, so never Full
put(queue, item) == Append(queue, item)

\* a get that takes the newest item
get_newest(queue) ==
    IF queue = <<>>
    THEN [empty |-> TRUE, item |-> <<>>, queue |-> queue]
    ELSE [empty |-> FALSE, item |-> <<queue[Len(queue)]>>,
          queue |-> SubSeq(queue, 1, Len(queue) - 1)]

\* Queue.get_nowait(): the oldest item, or the Empty exception
get_nowait(queue) ==
    IF queue = <<>>
    THEN [empty |-> TRUE, item |-> <<>>, queue |-> queue]
    ELSE [empty |-> FALSE, item |-> <<Head(queue)>>, queue |-> Tail(queue)]

\* get_next_log(): ret is <<>> for None, else the one Message; the Message
\* is written to log_file when one is open
get_next_log(queue, c) ==
    LET g == get_nowait(queue)
        marked == [c EXCEPT !.mark = IF @ < 0 THEN Len(c.published) ELSE @]
    IN  IF g.empty
        THEN [ret |-> <<>>, queue |-> g.queue, chan |-> marked]
        ELSE [ret |-> g.item, queue |-> g.queue,
              chan |-> [marked EXCEPT
                          !.drained = @ \o g.item,
                          !.written = IF c.open THEN @ \o <<g.item[1].raw>>
                                      ELSE @]]

\* the callers of the publishers; the text of a Message names its caller and
\* says which of the caller's messages it is
Producers == {"p1", "p2"}

FromProducer(msgs, p) == SelectSeq(msgs, LAMBDA m : m.raw[1] = p)

LogInit ==
    /\ log = <<>>
    /\ chan \in {[NoChan EXCEPT !.open = o] : o \in BOOLEAN}
    /\ pc = "channel"
    /\ op = [name |-> "none"]
    /\ value = Defaults
    /\ file = Absent
    /\ arg = <<>>
    /\ nOps = 0
    /\ dumped = NotDumped
    /\ term = NoTerm
    /\ app = NoApp
    /\ calls = <<>>
    /\ proc = NoProc
    /\ sel = NoSel

Publish(level) ==
    \E p \in Producers :
        LET m == MessageOf(level, <<p, Len(FromProducer(chan.published, p)) + 1>>)
        IN  /\ pc = "channel"
            /\ Len(chan.published) < MaxPublished
            /\ log' = put(log, m)
            /\ chan' = [chan EXCEPT !.published = Append(@, m)]
            /\ op' = [name |-> "publish", msg |-> m, before |-> log]
            /\ UNCHANGED <<value, file, pc, arg, nOps, dumped,
                           term, app, calls, proc, sel>>

PublishSuccess == Publish("success")
PublishError == Publish("error")
PublishWarning == Publish("warning")
PublishInfo == Publish("info")
PublishVerbose == Publish("verbose")

\* one call of get_next_log by the consumer
GetNextLog ==
    LET r == get_next_log(log, chan)
    IN  /\ pc = "channel"
        /\ log' = r.queue
        /\ chan' = r.chan
        /\ op' = [name |-> "drain", ret |-> r.ret, before |-> log]
        /\ UNCHANGED <<value, file, pc, arg, nOps, dumped,
                       term, app, calls, proc, sel>>

LogNext ==
    \/ PublishSuccess
    \/ PublishError
    \/ PublishWarning
    \/ PublishInfo
    \/ PublishVerbose
    \/ GetNextLog

SpecLog == LogInit /\ [][LogNext]_vars

----------------------------------------------------------------------------
(* The curses session: CursesApp.__init__ and CursesApp.cleanup.  calls    *)
(* lists the curses calls in the order they are made; "check size" stands  *)
(* for the reading of curses.LINES and curses.COLS at line 516.            *)

MaxTermLines == 20  \* tallest terminal enumerated
MaxTermCols == 66   \* widest terminal enumerated

min_lines == 12
min_cols == 44
max_border_lines == 3
max_border_cols == 10

ColorIndex == {"normal", "highlight", "success", "error", "warning", "info",
               "verbose"}

\* lines 493-509: everything __init__ does before it looks at the size
SetupCalls ==
    <<"initscr", "start_color">>
    \o [i \in 1..Cardinality(ColorIndex) |-> "init_pair"]
    \o <<"screen.bkgdset", "noecho", "cbreak", "curs_set(0)",
         "screen.keypad(True)", "screen.clear", "screen.refresh">>

\* lines 536-551
WindowCalls == <<"newwin border", "newwin win", "border.clear",
                 "border.border", "border.refresh", "win.clear", "win.refresh">>

\* lines 560-564
RestoreCalls == <<"screen.keypad(False)", "curs_set(1)", "echo", "nocbreak",
                  "endwin">>

\* the calls that put something on the terminal, and those that make a window
DrawingCalls == {"screen.clear", "screen.refresh", "border.clear",
                 "border.border", "border.refresh", "win.clear", "win.addstr",
                 "win.refresh"}
NewWindowCalls == {"newwin border", "newwin win"}

\* int(n / 2): the quotient rounded towards zero
IntHalf(n) == IF n >= 0 THEN n \div 2 ELSE -((-n) \div 2)

\* line 516
TooSmall(t) == t.LINES < min_lines \/ t.COLS < min_cols

ViewLines_unclamped(t) == t.LINES - (max_border_lines * 2)

\* lines 522-525
ViewLines(t) ==
    IF t.LINES > ((max_border_lines * 2) + min_lines)
    THEN t.LINES - (max_border_lines * 2)
    ELSE min_lines

ViewCols_unclamped(t) == t.COLS - (max_border_cols * 2)

\* lines 527-530
ViewCols(t) ==
    IF t.COLS > ((max_border_cols * 2) + min_cols)
    THEN t.COLS - (max_border_cols * 2)
    ELSE min_cols

\* a window: curses.newwin(nlines, ncols, begin_y, begin_x)
newwin(nlines, ncols, begin_y, begin_x) ==
    <<[nlines |-> nlines, ncols |-> ncols, begin_y |-> begin_y,
       begin_x |-> begin_x]>>

\* lines 522-554: the attributes __init__ sets once the size has passed
Viewport(a, t) ==
    LET lines == ViewLines(t)
        cols == ViewCols(t)
        line_origin == IntHalf(t.LINES - lines)
        col_origin == IntHalf(t.COLS - cols)
    IN  [a EXCEPT !.lines = lines, !.cols = cols,
                  !.line_origin = line_origin, !.col_origin = col_origin,
                  !.border = newwin(lines, cols, line_origin, col_origin),
                  !.win = newwin(lines - 2, cols - 4, line_origin + 1,
                                 col_origin + 2),
                  !.good = TRUE]

\* the calls of seq up to the first x
UpTo(seq, x) ==
    SubSeq(seq, 1, CHOOSE i \in 1..Len(seq) :
                      seq[i] = x /\ \A j \in 1..(i - 1) : seq[j] # x)

\* a cleanup that restores on every call
cleanup_unguarded(a, t, cs) ==
    IF t.cursor
    THEN [app |-> [a EXCEPT !.good = FALSE, !.clean = TRUE],
          calls |-> cs \o RestoreCalls, raised |-> FALSE]
    ELSE [app |-> [a EXCEPT !.good = FALSE],
          calls |-> cs \o UpTo(RestoreCalls, "curs_set(1)"), raised |-> TRUE]

\* CursesApp.cleanup on the object a and the terminal t, after the calls cs;
\* curs_set(1) raises curses.error on a terminal without cursor control, and
\* cleanup ends there
cleanup(a, t, cs) ==
    IF a.clean = FALSE
    THEN IF t.cursor
         THEN [app |-> [a EXCEPT !.good = FALSE, !.clean = TRUE],
               calls |-> cs \o RestoreCalls, raised |-> FALSE]
         ELSE [app |-> [a EXCEPT !.good = FALSE],
               calls |-> cs \o UpTo(RestoreCalls, "curs_set(1)"),
               raised |-> TRUE]
    ELSE [app |-> [a EXCEPT !.good = FALSE], calls |-> cs, raised |-> FALSE]

\* CursesApp.__init__ on the terminal t, after the calls cs: the object, the
\* calls, the messages published, the hooks registered with atexit, and
\* whether it ended with curses.error: init_pair raises on a terminal
\* without colours, curs_set(0) on one without cursor control
CursesApp_init(t, cs) ==
    LET a == [NoApp EXCEPT !.made = TRUE]
        checked == cs \o SetupCalls \o <<"check size">>
    IN  IF ~t.colors
        THEN [app |-> a, calls |-> cs \o UpTo(SetupCalls, "init_pair"),
              msgs |-> <<>>, atexit |-> <<"cleanup">>, raised |-> TRUE]
        ELSE IF ~t.cursor
        THEN [app |-> a, calls |-> cs \o UpTo(SetupCalls, "curs_set(0)"),
              msgs |-> <<>>, atexit |-> <<"cleanup">>, raised |-> TRUE]
        ELSE IF TooSmall(t)
        THEN [app |-> cleanup(a, t, checked).app,
              calls |-> cleanup(a, t, checked).calls,
              msgs |-> <<error("Min dim: 12x44")>>,
              atexit |-> <<"cleanup">>, raised |-> FALSE]
        ELSE [app |-> Viewport(a, t),
              calls |-> checked \o WindowCalls,
              msgs |-> <<>>,
              atexit |-> <<"cleanup">>, raised |-> FALSE]

----------------------------------------------------------------------------
(* The process: __main__ from the reading of the configuration to the exit, *)
(* and interactive_conf, one action for each turn of its menu loop.  The    *)
(* frames drawn are assumed to fit the window.  Scenarios are those without *)
(* --generate-conf.                                                         *)

\* the queue and its history as one value, for the steps inside one action
Channel == [queue |-> log, chan |-> chan]

\* the publishers called with each of msgs in turn
Published(c, msgs) ==
    [queue |-> c.queue \o msgs,
     chan |-> [c.chan EXCEPT !.published = @ \o msgs]]

\* select, lines 618-633: while not log.empty(): get_next_log()
RECURSIVE DrainAll(_)
DrainAll(c) ==
    IF c.queue = <<>> THEN c
    ELSE LET r == get_next_log(c.queue, c.chan)
         IN  DrainAll([queue |-> r.queue, chan |-> r.chan])

\* the curses calls of one frame of select and its key read (lines 592-637)
SelectCalls == <<"win.clear", "win.addstr", "win.refresh", "screen.getkey">>

\* the curses calls of one frame of input and its key read (lines 669-675)
InputCalls == <<"win.clear", "win.addstr", "win.refresh", "curs_set(1)",
                "screen.getkey", "curs_set(0)">>

\* the process ends with the given exit code: the hooks registered with
\* atexit run first, and an exception in one is printed and dropped
Exit(p, a, t, cs, code) ==
    LET c == IF p.atexit # <<>> THEN cleanup(a, t, cs)
             ELSE [app |-> a, calls |-> cs]
    IN  [proc |-> [p EXCEPT !.exited = TRUE, !.code = code],
         app |-> c.app, calls |-> c.calls]

\* get_device (lines 228-253): lsblk may list no device, a device may suit,
\* none may suit, or lsblk may be missing, so that subprocess.run raises
DeviceSearch ==
    {[raised |-> FALSE, ret |-> NoneV,
      msgs |-> <<error("Failed to get device information from lsblk"),
                 error("Failed to list devices")>>],
     [raised |-> FALSE, ret |-> NoneV,
      msgs |-> <<error("Not enough space on device"),
                 info("The minimum requirements for installation were not met by device")>>],
     [raised |-> TRUE, ret |-> NoneV, msgs |-> <<>>]}
    \cup {[raised |-> FALSE, ret |-> StrV(d), msgs |-> <<>>] : d \in DevicePaths}

\* CursesApp.get_device (lines 689-747): shown tells whether its select ran;
\* msgs are published after the last frame of that select
DevicePick ==
    {[raised |-> TRUE, shown |-> FALSE, ret |-> NoneV, msgs |-> <<>>],
     [raised |-> FALSE, shown |-> FALSE, ret |-> NoneV,
      msgs |-> <<error("Failed to get device information from lsblk")>>],
     [raised |-> FALSE, shown |-> TRUE, ret |-> NoneV,
      msgs |-> <<error("Failed to select a device")>>],
     [raised |-> FALSE, shown |-> TRUE, ret |-> NoneV,
      msgs |-> <<error("Not enough space on device"),
                 error("The selected device does not meet the minimum requirements for installation"),
                 error("Failed to select a device")>>]}
    \cup {[raised |-> FALSE, shown |-> TRUE, ret |-> StrV(d), msgs |-> <<>>] :
             d \in DevicePaths}

\* CursesApp.get_time_zone (lines 749-764)
TimeZonePick ==
    {[raised |-> TRUE, shown |-> FALSE, ret |-> NoneV, msgs |-> <<>>],
     [raised |-> FALSE, shown |-> FALSE, ret |-> NoneV,
      msgs |-> <<error("Failed to get the list of timezones from timedatectl")>>],
     [raised |-> FALSE, shown |-> TRUE, ret |-> NoneV,
      msgs |-> <<error("Failed to select a timezone")>>]}
    \cup {[raised |-> FALSE, shown |-> TRUE, ret |-> StrV(tz), msgs |-> <<>>] :
             tz \in TimeZones}

\* the terminals of the whole-process scenarios: one too short and one too
\* narrow, with colours and cursor control (as xterm, linux); and a large
\* one with them, without cursor control (ansi), without colours, and
\* without either (vt100, dumb)
MainTerms ==
    {[NoTerm EXCEPT !.LINES = size[1], !.COLS = size[2]] :
        size \in {<<min_lines - 1, min_cols>>, <<min_lines, min_cols - 1>>}}
    \cup {[LINES |-> MaxTermLines, COLS |-> MaxTermCols,
           colors |-> colors, cursor |-> cursor] :
             colors \in BOOLEAN, cursor \in BOOLEAN}

\* the profiles read at start: none, and one that names a device
MainFiles ==
    {Absent,
     Object(<<[key |-> "device",
               jv |-> [j |-> "string", text |-> <<"/","d","e","v","/","s","d","a">>]]>>)}

\* the texts typed into app.input in the whole-process scenarios
MainResponses == {<<"7">>, <<"TAB">>}

\* the variables no step of the process changes
fixed == <<file, arg, dumped, term, sel>>

\* the effect of a step on the queue, the session and the process
Becomes(c, a, cs, p) ==
    /\ log' = c.queue
    /\ chan' = c.chan
    /\ app' = a
    /\ calls' = cs
    /\ proc' = p

\* the process ends: quit(code), or an exception nothing catches; op keeps
\* the session as it was when the exit hooks started
Ends(c, a, cs, p, code, cause) ==
    LET e == Exit(p, a, term, cs, code)
    IN  /\ Becomes(c, e.app, e.calls, e.proc)
        /\ pc' = "exited"
        /\ op' = [name |-> "exit", cause |-> cause, app |-> a, calls |-> cs]

\* lines 1003-1010: load_packages, load_profile
MainLoad ==
    /\ pc = "main"
    /\ \E packages \in BOOLEAN :
         LET r == load_profile(value, file)
             msgs == IF packages THEN <<>>
                     ELSE <<error("Failed to read the package list")>>
         IN  /\ value' = r.value
             /\ Becomes(Published(Channel, msgs \o r.msgs), app, calls, proc)
             /\ op' = [name |-> "load", ret |-> r.ret, old |-> value,
                       published |-> r.msgs]
    /\ pc' = "loaded"
    /\ UNCHANGED <<nOps, fixed>>

\* lines 1013-1014: profile.device.set(get_device(...)) when no device is set
MainAutoDevice ==
    /\ pc = "loaded"
    /\ IF value["device"] # NoneV
       THEN /\ pc' = "mode"
            /\ UNCHANGED <<value, log, chan, app, calls, proc, op>>
       ELSE \E g \in DeviceSearch :
              IF g.raised
              THEN /\ Ends(Channel, app, calls, proc, 1, "uncaught")
                   /\ UNCHANGED value
              ELSE LET r == Field_set(value, "device", g.ret)
                   IN  /\ value' = r.value
                       /\ Becomes(Published(Channel, g.msgs \o r.msgs),
                                  app, calls, proc)
                       /\ pc' = "mode"
                       /\ op' = [name |-> "device", ret |-> g.ret]
    /\ UNCHANGED <<nOps, fixed>>

\* line 1017 in non-interactive mode
SkipConf ==
    /\ pc = "mode"
    /\ ~arg.interactive
    /\ pc' = "check"
    /\ UNCHANGED <<value, log, chan, app, calls, proc, op, nOps, fixed>>

\* interactive_conf, lines 767-771: app = CursesApp(); return None unless
\* app.good; a curses.error out of CursesApp() is caught nowhere
ConfStart ==
    /\ pc = "mode"
    /\ arg.interactive
    /\ LET r == CursesApp_init(term, calls)
           hooked == [proc EXCEPT !.atexit = @ \o r.atexit]
       IN  IF r.raised
           THEN Ends(Channel, r.app, r.calls, hooked, 1, "uncaught")
           ELSE /\ Becomes(Published(Channel, r.msgs), r.app, r.calls, hooked)
                /\ pc' = IF r.app.good THEN "menu" ELSE "conf_none"
                /\ op' = [name |-> "init", good |-> r.app.good]
    /\ UNCHANGED <<value, nOps, fixed>>

\* a turn of the menu loop: the menu's select draws, drains and reads keys
InMenu == pc = "menu" /\ app.good

\* "q" in the menu: interactive_conf returns None (lines 794-795)
MenuCancel ==
    /\ InMenu
    /\ Becomes(DrainAll(Channel), app, calls \o SelectCalls, proc)
    /\ pc' = "conf_none"
    /\ op' = [name |-> "menu", row |-> "cancel"]
    /\ UNCHANGED <<value, nOps, fixed>>

\* rows 1, 3, 5-9: app.input, which ends with field.set(response)
MenuEdit ==
    /\ InMenu
    /\ nOps < MaxOps
    /\ \E f \in InputFields, response \in MainResponses :
         LET r == Field_set(value, f, StrV(response))
         IN  /\ value' = r.value
             /\ Becomes(Published(DrainAll(Channel), r.msgs), app,
                        calls \o SelectCalls \o InputCalls, proc)
             /\ op' = [name |-> "menu", row |-> f]
    /\ pc' = "menu"
    /\ nOps' = nOps + 1
    /\ UNCHANGED fixed

\* row 0: a second select, then network_install.set unless it was cancelled
MenuNetworkInstall ==
    /\ InMenu
    /\ nOps < MaxOps
    /\ \E selection_index \in {-1, 0, 1} :
         LET r == IF selection_index < 0
                  THEN [value |-> value, msgs |-> <<>>]
                  ELSE Field_set(value, "network_install",
                                 BoolV(selection_index # 0))
         IN  /\ value' = r.value
             /\ Becomes(Published(DrainAll(Channel), r.msgs), app,
                        calls \o SelectCalls \o SelectCalls, proc)
             /\ op' = [name |-> "menu", row |-> "network_install"]
    /\ pc' = "menu"
    /\ nOps' = nOps + 1
    /\ UNCHANGED fixed

\* what the given row does with the outcome g of its dialog, g.ret going to
\* field f when store holds
RowOutcome(g, row, f, store, next) ==
    IF g.raised
    THEN /\ Ends(DrainAll(Channel), app, calls \o SelectCalls, proc, 1,
              "uncaught")
         /\ UNCHANGED <<value, nOps>>
    ELSE LET r == IF store THEN Field_set(value, f, g.ret)
                  ELSE [value |-> value, msgs |-> <<>>]
         IN  /\ value' = r.value
             /\ Becomes(Published(DrainAll(Channel), g.msgs \o r.msgs), app,
                        calls \o SelectCalls
                              \o (IF g.shown THEN SelectCalls ELSE <<>>),
                        proc)
             /\ pc' = next
             /\ op' = [name |-> "menu", row |-> row, asked |-> TRUE,
                       had |-> value[f], got |-> g.ret]
             /\ nOps' = nOps + 1

\* row 2: profile.device.set(app.get_device(...)) (line 815)
MenuDevice ==
    /\ InMenu
    /\ nOps < MaxOps
    /\ \E g \in DevicePick : RowOutcome(g, "device", "device", TRUE, "menu")
    /\ UNCHANGED fixed

\* row 4: time_zone.set when app.get_time_zone gave one (lines 820-823)
MenuTimeZone ==
    /\ InMenu
    /\ nOps < MaxOps
    /\ \E g \in TimeZonePick :
          RowOutcome(g, "time_zone", "time_zone", g.ret # NoneV, "menu")
    /\ UNCHANGED fixed

\* row 10 with no device set: ask for one and leave the loop if one was given
MenuBeginAsk ==
    /\ InMenu
    /\ nOps < MaxOps
    /\ value["device"] = NoneV
    /\ \E g \in DevicePick \ {h \in DevicePick : h.ret # NoneV} :
          RowOutcome(g, "begin", "device", TRUE, "menu")
    /\ UNCHANGED fixed

\* a row 10 that leaves the loop whether or not a device is set
MenuBegin_unasked ==
    /\ InMenu
    /\ LET c == cleanup(app, term, calls \o SelectCalls)
       IN  /\ UNCHANGED value
           /\ IF c.raised
              THEN Ends(DrainAll(Channel), c.app, c.calls, proc, 1, "uncaught")
              ELSE /\ Becomes(DrainAll(Channel), c.app, c.calls, proc)
                   /\ pc' = "check"
                   /\ op' = [name |-> "menu", row |-> "begin",
                             asked |-> FALSE, had |-> value["device"],
                             got |-> NoneV]
    /\ UNCHANGED <<nOps, fixed>>

\* row 10 leaving the loop, the device set before or by the dialog:
\* app.cleanup(), run("clear"), return profile (lines 848-860)
MenuBegin ==
    /\ InMenu
    /\ \E g \in {h \in DevicePick : h.ret # NoneV} :
         LET asked == value["device"] = NoneV
             r == IF asked THEN Field_set(value, "device", g.ret)
                  ELSE [value |-> value, msgs |-> <<>>]
             c == cleanup(app, term, calls \o SelectCalls
                                      \o (IF asked THEN SelectCalls ELSE <<>>))
         IN  /\ value' = r.value
             /\ IF c.raised
                THEN Ends(Published(DrainAll(Channel), r.msgs), c.app, c.calls,
                          proc, 1, "uncaught")
                ELSE /\ Becomes(Published(DrainAll(Channel), r.msgs), c.app,
                                c.calls, proc)
                     /\ pc' = "check"
                     /\ op' = [name |-> "menu", row |-> "begin",
                               asked |-> asked, had |-> value["device"],
                               got |-> IF asked THEN g.ret ELSE NoneV]
    /\ UNCHANGED <<nOps, fixed>>

\* SIGINT or SIGTERM while select waits in screen.getkey: the handler of
\* lines 865-866 calls quit(1)
MenuSignal ==
    /\ InMenu
    /\ Ends(DrainAll(Channel), app, calls \o SelectCalls, proc, 1, "signal")
    /\ UNCHANGED <<value, nOps, fixed>>

\* a __main__ that goes on to the device check when interactive_conf gave
\* None
ConfFailed_goes_on ==
    /\ pc = "conf_none"
    /\ pc' = "check"
    /\ UNCHANGED <<log, chan, app, calls, proc, op, value, nOps, fixed>>

\* lines 1019-1023: interactive_conf gave None
ConfFailed ==
    /\ pc = "conf_none"
    /\ Ends(Published(Channel,
                      <<error("An operation failed during interactive profile configuration")>>),
            app, calls, proc, 1, "quit")
    /\ UNCHANGED <<value, nOps, fixed>>

\* lines 1026-1030
MainCheckDevice ==
    /\ pc = "check"
    /\ IF value["device"] = NoneV
       THEN Ends(Published(Channel,
                           <<error("Failed to find a suitable device for installation. Manual intervention is required")>>),
                 app, calls, proc, 1, "quit")
       ELSE /\ pc' = "install"
            /\ UNCHANGED <<log, chan, app, calls, proc, op>>
    /\ UNCHANGED <<value, nOps, fixed>>

\* bool(value), as 'if profile.network_install.get()' takes it
Truthy(v) ==
    CASE v.t = "none" -> FALSE
      [] v.t = "bool" -> v.b
      [] v.t = "int" -> \E i \in 1..Len(v.d) : v.d[i] # 0
      [] OTHER -> v.s # <<>>

\* lines 1049-1168: the steps of the installation in the order of the code,
\* each with the helper that runs it; sync is the pacman command line that
\* network_install selects (lines 1112-1122)
Pipeline(vals) ==
    <<[step |-> "lsblk mountpoints", by |-> "get"],
      [step |-> "umount", by |-> "run"],
      [step |-> "fdisk", by |-> "run"],
      [step |-> "mkfs.fat", by |-> "run"],
      [step |-> "mkfs.ext4", by |-> "run"],
      [step |-> "mount root", by |-> "run"],
      [step |-> "mount boot", by |-> "run"],
      [step |-> IF Truthy(vals["network_install"])
                THEN "pacman -Sy archlinux-keyring" ELSE "pacman -Sy",
       by |-> "run"],
      [step |-> "pacstrap", by |-> "run"],
      [step |-> "genfstab", by |-> "get"],
      [step |-> "write fstab", by |-> "write"],
      [step |-> "copy script", by |-> "copy"],
      [step |-> "arch-chroot", by |-> "run"],
      [step |-> "remove script", by |-> "remove"],
      [step |-> "final umount", by |-> "run"]>>

PipelineLen == Len(Pipeline(Defaults))

\* what a helper can report.  run and get end with an exception when the
\* command cannot be started; write and remove catch theirs.  copy hands
\* __file__, a regular file, to shutil.copytree, which raises
\* NotADirectoryError; copy catches it and returns False (lines 119-124)
Outcomes(by) ==
    CASE by \in {"run", "get"} -> {"ok", "failed", "raised"}
      [] by = "copy" -> {"failed"}
      [] OTHER -> {"ok", "failed"}

required_none(step) == FALSE

\* the steps whose failure is followed by error(...) and quit(1)
required(step) == step \notin {"lsblk mountpoints", "remove script"}

\* the error published when the step fails
ErrorOf(step) ==
    CASE step = "umount" -> "Failed to unmount all partitions"
      [] step = "fdisk" -> "Failed to format and partition"
      [] step = "mkfs.fat" -> "Failed to create a FAT32 filesystem"
      [] step = "mkfs.ext4" -> "Failed to create an EXT4 filesystem"
      [] step \in {"mount root", "mount boot"} -> "Failed to mount"
      [] step \in {"pacman -Sy archlinux-keyring", "pacman -Sy"} ->
           "Failed to sync package databases"
      [] step = "pacstrap" -> "Failed to install essential packages"
      [] step = "genfstab" -> "Failed to generate fstab"
      [] step = "write fstab" -> "Failed to write to /mnt/etc/fstab"
      [] step = "copy script" -> "Failed to copy this script to /mnt/root"
      [] step = "arch-chroot" -> "Failed operation while root was changed to /mnt"
      [] OTHER -> "Failed to unmount all partitions"

\* what the commands and the filesystem may do in one installation: the
\* mountpoints probe reports anything, at most one other step reports
\* something else than success, and copy what it always reports
InstallEnvs(vals) ==
    LET P == Pipeline(vals)
    IN  {env \in {[i \in 1..Len(P) |->
                     IF i = 1 THEN probe
                     ELSE IF Outcomes(P[i].by) = {"failed"} THEN "failed"
                     ELSE IF i = k THEN how
                     ELSE "ok"] :
                   probe \in Outcomes("get"), k \in 0..Len(P),
                   how \in {"failed", "raised"}} :
           \A i \in 1..Len(P) : env[i] \in Outcomes(P[i].by)}

\* lines 1049-1171 from step i on, r holding the steps run so far and the
\* messages published: the unmount is skipped unless the probe listed
\* mountpoints; an exception ends the process; a required step that fails
\* publishes its error and calls quit(1); after the last step comes quit(0)
RECURSIVE InstallFrom(_, _, _, _)
InstallFrom(P, i, env, r) ==
    IF i > Len(P)
    THEN [steps |-> r.steps, msgs |-> r.msgs, code |-> 0, cause |-> "quit"]
    ELSE LET ran == Append(r.steps, [step |-> P[i].step, result |-> env[i]])
         IN  IF P[i].step = "umount" /\ env[1] # "ok"
             THEN InstallFrom(P, i + 1, env, r)
             ELSE IF env[i] = "raised"
             THEN [steps |-> ran, msgs |-> r.msgs, code |-> 1,
                   cause |-> "uncaught"]
             ELSE IF env[i] = "failed" /\ required(P[i].step)
             THEN [steps |-> ran,
                   msgs |-> Append(r.msgs, error(ErrorOf(P[i].step))),
                   code |-> 1, cause |-> "quit"]
             ELSE InstallFrom(P, i + 1, env, [r EXCEPT !.steps = ran])

\* the installations of the whole-process scenarios: mountpoints are
\* listed, and partitioning fails or no step does before the copy
MainEnvs(vals) ==
    {[i \in 1..PipelineLen |->
        IF Pipeline(vals)[i].step \in {failing, "copy script"} THEN "failed"
        ELSE "ok"] : failing \in {"fdisk", "none"}}

\* lines 1033-1171: os.get_terminal_size raises when the standard output is
\* no terminal, which a process that ran the menu has; then the steps, the
\* commands and the filesystem behaving as one of envs
Install(envs) ==
    /\ pc = "install"
    /\ \E sized \in BOOLEAN, env \in envs :
         /\ arg.interactive => sized
         /\ IF ~sized
            THEN Ends(Channel, app, calls, proc, 1, "uncaught")
            ELSE LET r == InstallFrom(Pipeline(value), 1, env,
                                      [steps |-> <<>>, msgs |-> <<>>])
                 IN  Ends(Published(Channel, r.msgs), app, calls,
                          [proc EXCEPT !.steps = r.steps], r.code, r.cause)
    /\ UNCHANGED <<value, nOps, fixed>>

MainInstall == Install(MainEnvs(value))

\* the installation with every behaviour of the commands
InstallAny == Install(InstallEnvs(value))

(* SpecMain: the process from start to exit *)

MainInit ==
    /\ pc = "main"
    /\ arg \in [interactive : BOOLEAN]
    /\ file \in MainFiles
    /\ term \in MainTerms
    /\ chan = NoChan
    /\ log = <<>>
    /\ value = Defaults
    /\ op = [name |-> "none"]
    /\ nOps = 0
    /\ dumped = NotDumped
    /\ app = NoApp
    /\ calls = <<>>
    /\ proc = NoProc
    /\ sel = NoSel

MainNext ==
    \/ MainLoad
    \/ MainAutoDevice
    \/ SkipConf
    \/ ConfStart
    \/ MenuCancel
    \/ MenuEdit
    \/ MenuNetworkInstall
    \/ MenuDevice
    \/ MenuTimeZone
    \/ MenuBeginAsk
    \/ MenuBegin
    \/ MenuSignal
    \/ ConfFailed
    \/ MainCheckDevice
    \/ MainInstall

SpecMain == MainInit /\ [][MainNext]_vars

(* SpecSession: interactive_conf and the exit, on every terminal size; the *)
(* terminals have the colours and the cursor control CursesApp relies on   *)

SessionInit ==
    /\ pc = "mode"
    /\ arg = [interactive |-> TRUE]
    /\ term \in [LINES : 1..MaxTermLines, COLS : 1..MaxTermCols,
                 colors : {TRUE}, cursor : {TRUE}]
    /\ value \in {Defaults} \cup {[Defaults EXCEPT !["device"] = StrV(d)] :
                                    d \in DevicePaths}
    /\ file = Absent
    /\ chan = NoChan
    /\ log = <<>>
    /\ op = [name |-> "none"]
    /\ nOps = 0
    /\ dumped = NotDumped
    /\ app = NoApp
    /\ calls = <<>>
    /\ proc = NoProc
    /\ sel = NoSel

SessionNext ==
    \/ ConfStart
    \/ MenuCancel
    \/ MenuDevice
    \/ MenuBeginAsk
    \/ MenuBegin
    \/ MenuSignal
    \/ ConfFailed
    \/ MainCheckDevice
    \/ MainInstall

SpecSession == SessionInit /\ [][SessionNext]_vars

(* SpecInstall: the process from the device check on, with and without a   *)
(* device, for both settings of network_install, after the menu or without *)

InstallInit ==
    /\ pc = "check"
    /\ arg \in [interactive : BOOLEAN]
    /\ value \in {[Defaults EXCEPT !["device"] = dev,
                                   !["network_install"] = BoolV(net)] :
                    dev \in {NoneV} \cup {StrV(d) : d \in DevicePaths},
                    net \in BOOLEAN}
    /\ arg.interactive => value["device"] # NoneV
    /\ term = [NoTerm EXCEPT !.LINES = MaxTermLines, !.COLS = MaxTermCols]
    /\ app = IF arg.interactive
             THEN cleanup(Viewport([NoApp EXCEPT !.made = TRUE], term),
                          term, <<>>).app
             ELSE NoApp
    /\ calls = <<>>
    /\ proc = IF arg.interactive THEN [NoProc EXCEPT !.atexit = <<"cleanup">>]
              ELSE NoProc
    /\ file = Absent
    /\ chan = NoChan
    /\ log = <<>>
    /\ op = [name |-> "none"]
    /\ nOps = 0
    /\ dumped = NotDumped
    /\ sel = NoSel

InstallNext == MainCheckDevice \/ InstallAny

SpecInstall == InstallInit /\ [][InstallNext]_vars

(* SpecGenerate: the process started with --generate-conf.  file is the    *)
(* document at profile_path and dumped.packages the file at                *)
(* package_list_path; a log file, when one is named, is another file.      *)

\* the default package list of lines 905-929
packages ==
    <<"base", "base-devel", "linux", "linux-firmware", "bash",
      "bash-completion", "man-db", "man-pages", "cgs-auto-limine", "less",
      "curl", "git", "python", "ufw", "nano", "vim", "networkmanager",
      "alsa-utils", "bluez", "bluez-utils", "pulseaudio", "pulseaudio-alsa",
      "pulseaudio-bluetooth">>

\* a text file of the given lines
Lines(items) == [kind |-> "lines", items |-> items]

exists_never(f) == FALSE

\* os.path.exists
exists(f) == f.kind # "absent"

\* dump_packages (lines 380-387): what it returns, the file after it and
\* what it published
dump_packages(list, before, writable) ==
    IF writable
    THEN [ret |-> TRUE, file |-> Lines(list), msgs |-> <<>>]
    ELSE [ret |-> FALSE, file |-> before,
          msgs |-> <<error("Failed to write the package list")>>]

\* lines 968-1000: the outcome of the branch on the two files, env telling
\* whether makedirs succeeds or raises and whether each file is writable:
\* the files after it, the messages published and how the process ends
generate_conf(vals, list_file, profile_file, env) ==
    LET quit1(lf, pf, msgs) == [packages |-> lf, profile |-> pf, msgs |-> msgs,
                                code |-> 1, cause |-> "quit"]
        p == dump_packages(packages, list_file, env.list_writable)
        d == dump_profile(vals, profile_file, env.profile_writable)
    IN  IF exists(list_file)
        THEN quit1(list_file, profile_file,
                   <<error("A package list already exists at the default location")>>)
        ELSE IF exists(profile_file)
        THEN quit1(list_file, profile_file,
                   <<error("A profile already exists at the default location")>>)
        ELSE IF ~env.makedirs
        THEN [packages |-> list_file, profile |-> profile_file, msgs |-> <<>>,
              code |-> 1, cause |-> "uncaught"]
        ELSE IF ~p.ret
        THEN quit1(p.file, profile_file,
                   p.msgs \o <<error("Failed to write an example package list")>>)
        ELSE IF ~d.ret
        THEN quit1(p.file, d.file,
                   p.msgs \o d.msgs
                     \o <<error("Failed to write an example profile")>>)
        ELSE [packages |-> p.file, profile |-> d.file, msgs |-> <<>>,
              code |-> 0, cause |-> "quit"]

\* lines 968-1000 as a step of the process
Generate ==
    /\ pc = "main"
    /\ arg.generate_conf
    /\ \E env \in [makedirs : BOOLEAN, list_writable : BOOLEAN,
                   profile_writable : BOOLEAN] :
         LET g == generate_conf(value, dumped.packages, file, env)
             e == Exit(proc, app, term, calls, g.code)
         IN  /\ file' = g.profile
             /\ dumped' = [ok |-> g.profile # file, value |-> value,
                           packages |-> g.packages]
             /\ Becomes(Published(Channel, g.msgs), e.app, e.calls, e.proc)
             /\ op' = [name |-> "generate", cause |-> g.cause,
                       before |-> [packages |-> dumped.packages,
                                   profile |-> file]]
    /\ pc' = "exited"
    /\ UNCHANGED <<value, arg, nOps, term, sel>>

\* the package lists found at start: none, an empty one, one of two lines,
\* and the default one
PackageFiles ==
    {[kind |-> "absent", items |-> <<>>], Lines(<<>>),
     Lines(<<"base", "linux">>), Lines(packages)}

GenerateInit ==
    /\ pc = "main"
    /\ arg \in [interactive : BOOLEAN, generate_conf : {TRUE}]
    /\ file \in Files(1)
    /\ dumped \in {[NotDumped EXCEPT !.packages = f] : f \in PackageFiles}
    /\ value = Defaults
    /\ log = <<>>
    /\ op = [name |-> "none"]
    /\ nOps = 0
    /\ NoSession

SpecGenerate == GenerateInit /\ [][Generate]_vars

----------------------------------------------------------------------------
(* CursesApp.select, key by key.  sel holds the arguments and locals of the *)
(* call: items, cursor_index, the items the validator accepts, the frames   *)
(* drawn so far and what the call returned; first is the cursor_index the   *)
(* caller passed and validated the items the validator was called with;     *)
(* outer holds the select calls waiting in their validator while this one   *)
(* runs, and fits tells whether the prompt and the items fit the window.    *)
(* calls lists the curses calls made since the call began, and op tells the *)
(* last step: the key read and the cursor_index before it.                  *)

MaxItems == 2   \* longest list handed to select
MaxFrames == 3  \* frames one select scenario draws

\* an item is a str with its text, or something else (type(item) is not str)
StrItem(text) == [str |-> TRUE, text |-> text]
NotStrItem == [str |-> FALSE, text |-> "5"]
ItemTexts == {"x", "y"}
Items == {StrItem(t) : t \in ItemTexts} \cup {NotStrItem}

\* the keys screen.getkey returns: those select knows, and one it does not
Keys == {"j", "KEY_DOWN", "k", "KEY_UP", "q", ";", "ENTER", "h"}

\* the curses calls of show_help (lines 568-576)
HelpCalls == <<"win.clear", "win.addstr", "win.refresh", "win.getkey">>

ReturnedNone == [done |-> TRUE, none |-> TRUE, index |-> 0]
Returned(i) == [done |-> TRUE, none |-> FALSE, index |-> i]

NotEnough_never(items) == FALSE

\* line 586
NotEnough(items) == Len(items) <= 0

\* a cursor that wraps around the ends of the list
Clamp_wrap(i, items) == i % Len(items)

\* lines 654-655
Clamp(i, items) ==
    LET low == IF i > 0 THEN i ELSE 0
    IN  IF low < Len(items) - 1 THEN low ELSE Len(items) - 1

\* items[i] as Python indexes a list: from the end when i is negative, and
\* IndexError when i is out of range
Indexable(items, i) == i >= -Len(items) /\ i < Len(items)
ItemAt(items, i) == IF i >= 0 THEN items[i + 1] ELSE items[Len(items) + i + 1]

\* a select that returns the index whatever the validator says
validator_ignored(accepts, items, cursor_index) == Returned(cursor_index)

\* lines 645-649: the validator called with items[cursor_index], and what
\* select returns then
validator(accepts, items, cursor_index) ==
    IF ItemAt(items, cursor_index).text \in accepts
    THEN Returned(cursor_index)
    ELSE ReturnedNone

SelectInit ==
    /\ pc = "call"
    /\ sel \in {[NoSel EXCEPT !.items = items, !.cursor_index = c,
                              !.first = c, !.accepts = accepts,
                              !.fits = fits] :
                  items \in UNION {[1..n -> Items] : n \in 0..MaxItems},
                  c \in -1..MaxItems,
                  accepts \in SUBSET ItemTexts,
                  fits \in BOOLEAN}
    /\ log \in {<<>>, <<warning("pending", "")>>}
    /\ chan = [NoChan EXCEPT !.published = log]
    /\ term = [NoTerm EXCEPT !.LINES = MaxTermLines, !.COLS = MaxTermCols]
    /\ app = Viewport([NoApp EXCEPT !.made = TRUE], term)
    /\ calls = <<>>
    /\ proc = [NoProc EXCEPT !.atexit = <<"cleanup">>]
    /\ op = [name |-> "none"]
    /\ value = Defaults
    /\ file = Absent
    /\ arg = <<>>
    /\ nOps = 0
    /\ dumped = NotDumped

\* what a step of select leaves alone
outside == <<value, file, arg, nOps, dumped, term, app, proc>>

\* lines 586-590: the call, up to the loop
SelectCall ==
    /\ pc = "call"
    /\ IF NotEnough(sel.items)
       THEN /\ Becomes(Published(Channel,
                                 <<error("Not enough items given to select from")>>),
                       app, calls, proc)
            /\ sel' = [sel EXCEPT !.ret = ReturnedNone]
            /\ pc' = "returned"
       ELSE /\ pc' = "frame"
            /\ UNCHANGED <<log, chan, calls, sel>>
    /\ op' = [name |-> "call"]
    /\ UNCHANGED outside

\* lines 591-637 and 656-657: one frame.  An item that is no str ends the
\* call with None when the loop over the items comes to it, which it does
\* unless the window is full before (reached).  When the prompt and the
\* items do not fit the window, addstr raises curses.error, 'except
\* curses.error: pass' ends the iteration and the loop starts over; else
\* the queue is drained and a key awaited
SelectFrame ==
    /\ pc = "frame"
    /\ sel.frames < MaxFrames
    /\ \E reached \in BOOLEAN :
       /\ sel.fits => reached
       /\ IF reached /\ \E i \in 1..Len(sel.items) : ~sel.items[i].str
          THEN /\ Becomes(Published(Channel,
                                    <<error("The given item is not a string")>>),
                          app, calls \o <<"win.clear", "win.addstr">>, proc)
               /\ sel' = [sel EXCEPT !.frames = @ + 1, !.ret = ReturnedNone]
               /\ pc' = "returned"
          ELSE IF ~sel.fits
          THEN /\ calls' = calls \o <<"win.clear", "win.addstr">>
               /\ sel' = [sel EXCEPT !.frames = @ + 1]
               /\ pc' = "frame"
               /\ UNCHANGED <<log, chan>>
          ELSE /\ Becomes(DrainAll(Channel), app, calls \o SelectCalls, proc)
               /\ sel' = [sel EXCEPT !.frames = @ + 1]
               /\ pc' = "key"
    /\ op' = [name |-> "frame"]
    /\ UNCHANGED outside

\* lines 637-655: the key read
SelectKey ==
    /\ pc = "key"
    /\ \E key \in Keys :
      /\ op' = [name |-> "key", key |-> key, old |-> sel.cursor_index]
      /\ CASE key \in {"j", "KEY_DOWN"} ->
                /\ sel' = [sel EXCEPT !.cursor_index = Clamp(@ + 1, sel.items)]
                /\ pc' = "frame"
                /\ UNCHANGED calls
           [] key \in {"k", "KEY_UP"} ->
                /\ sel' = [sel EXCEPT !.cursor_index = Clamp(@ - 1, sel.items)]
                /\ pc' = "frame"
                /\ UNCHANGED calls
           [] key = "q" ->
                /\ sel' = [sel EXCEPT !.ret = ReturnedNone]
                /\ pc' = "returned"
                /\ UNCHANGED calls
           [] key \in {";", "ENTER"} ->
                /\ IF ~Indexable(sel.items, sel.cursor_index)
                   THEN /\ pc' = "raised"
                        /\ UNCHANGED sel
                   ELSE /\ pc' = "returned"
                        /\ sel' = [sel EXCEPT
                                     !.validated = Append(@,
                                         ItemAt(sel.items, sel.cursor_index).text),
                                     !.ret = validator(sel.accepts, sel.items,
                                                       sel.cursor_index)]
                /\ UNCHANGED calls
           [] OTHER ->
                /\ calls' = calls \o HelpCalls
                /\ pc' = "frame"
                /\ UNCHANGED sel
    /\ UNCHANGED <<log, chan, outside>>

SelectNext == SelectCall \/ SelectFrame \/ SelectKey

SpecSelect == SelectInit /\ [][SelectNext]_vars

----------------------------------------------------------------------------
(* CursesApp.input, key by key.  arg.field is the Field it was called      *)
(* with, sel.response the text typed so far and sel.fits whether the       *)
(* prompt and the response fit the window.                                 *)

\* what screen.getkey returns: a str of one character for a character key,
\* printable ("a", "7") or not ("TAB" is chr(9)), chr(10) for Enter, and
\* the name of the key for a function key
KeyNames == {"KEY_BACKSPACE", "KEY_UP"}
InputKeys == {"a", "7", "TAB", "ENTER"} \cup KeyNames

\* lines 667-671 and 686-687: one frame; addstr raises curses.error when the
\* prompt and the response do not fit the window, and the loop starts over
InputFrame ==
    /\ pc = "frame"
    /\ sel.frames < MaxFrames
    /\ IF ~sel.fits
       THEN /\ calls' = calls \o <<"win.clear", "win.addstr">>
            /\ pc' = "frame"
       ELSE /\ calls' = calls \o InputCalls
            /\ pc' = "key"
    /\ sel' = [sel EXCEPT !.frames = @ + 1]
    /\ op' = [name |-> "frame", had |-> value[arg.field]]
    /\ UNCHANGED <<value, log, chan, file, arg, nOps, dumped, term, app, proc>>

\* lines 673-684: the key read.  Enter ends the call with
\* field.set(response); a key of one character is added to the response;
\* KEY_BACKSPACE takes the last character off
InputKey ==
    /\ pc = "key"
    /\ \E key \in InputKeys :
         /\ op' = [name |-> "key", key |-> key, old |-> sel.response,
                   had |-> value[arg.field]]
         /\ IF key = "ENTER"
            THEN LET r == Field_set(value, arg.field, StrV(sel.response))
                 IN  /\ value' = r.value
                     /\ Becomes(Published(Channel, r.msgs), app, calls, proc)
                     /\ sel' = [sel EXCEPT !.ret = Returned(0)]
                     /\ pc' = "returned"
            ELSE /\ sel' = [sel EXCEPT !.response =
                             IF key \notin KeyNames THEN Append(@, key)
                             ELSE IF key = "KEY_BACKSPACE" /\ @ # <<>>
                             THEN SubSeq(@, 1, Len(@) - 1)
                             ELSE @]
                 /\ pc' = "frame"
                 /\ UNCHANGED <<value, log, chan, app, calls, proc>>
    /\ UNCHANGED <<file, arg, nOps, dumped, term>>

EditInit ==
    /\ pc = "frame"
    /\ arg \in [field : InputFields]
    /\ value \in {Defaults, [Defaults EXCEPT ![arg.field] = StrV(<<>>)]}
    /\ sel \in {[NoSel EXCEPT !.response = get_str(value[arg.field]),
                              !.fits = fits] : fits \in BOOLEAN}
    /\ log = <<>>
    /\ chan = NoChan
    /\ term = [NoTerm EXCEPT !.LINES = MaxTermLines, !.COLS = MaxTermCols]
    /\ app = Viewport([NoApp EXCEPT !.made = TRUE], term)
    /\ calls = <<>>
    /\ proc = [NoProc EXCEPT !.atexit = <<"cleanup">>]
    /\ op = [name |-> "none"]
    /\ file = Absent
    /\ nOps = 0
    /\ dumped = NotDumped

EditNext == InputFrame \/ InputKey

SpecInput == EditInit /\ [][EditNext]_vars

----------------------------------------------------------------------------
(* The automatic get_device, and CursesApp.get_device key by key.  The     *)
(* devices of the one and the items of the other's select are the rows     *)
(* of lsblk, each with what is_device_valid and device_lacks_partitions    *)
(* will say of the device it names: lacks is "yes" for True, "no" for      *)
(* False and "unknown" for None.  The frames are assumed to fit.           *)

LowerSeq == <<"a", "b", "c", "d", "e", "f", "g", "h">>

DeviceRow(path, valid, lacks) ==
    [str |-> TRUE, text |-> path, valid |-> valid, lacks |-> lacks]

\* the path of the i-th device: /dev/sda, /dev/sdb, ...
PathOf(i) ==
    <<"/","d","e","v","/","s","d">> \o <<LowerSeq[i]>>

\* the devices lsblk lists: up to MaxItems rows
DeviceLists ==
    UNION {{[i \in 1..n |-> DeviceRow(PathOf(i), kind[i].valid, kind[i].lacks)] :
              kind \in [1..n -> [valid : BOOLEAN,
                                 lacks : {"yes", "no", "unknown"}]]} :
             n \in 1..MaxItems}

\* the row of no device
NoDevice == DeviceRow(<<>>, FALSE, "unknown")

\* what is_device_valid (lines 179-211) and device_lacks_partitions (lines
\* 214-225) publish of a device they do not pass, and get_device after them
Skipped(dev) ==
    IF ~dev.valid
    THEN <<error("Not enough space on device"),
           info("The minimum requirements for installation were not met by device")>>
    ELSE <<IF dev.lacks = "no" THEN warning("Partitions found on device", "")
           ELSE error("Failed to use lsblk to list partitions on device"),
           info("Formatting a device that already contains partitions will result in irreversible data loss!")>>

RECURSIVE get_device(_)

\* a get_device that asks only for the size
get_device_any(devices) ==
    IF devices = <<>>
    THEN [ret |-> NoneV, dev |-> NoDevice, msgs |-> <<>>]
    ELSE LET dev == Head(devices)
         IN  IF dev.valid
             THEN [ret |-> StrV(dev.text), dev |-> dev, msgs |-> <<>>]
             ELSE LET r == get_device(Tail(devices))
                  IN  [r EXCEPT !.msgs = Skipped(dev) \o @]

\* get_device, lines 236-253: the first of the devices that is valid and
\* that device_lacks_partitions says True of, with what is published on the
\* way; None when there is none
get_device(devices) ==
    IF devices = <<>>
    THEN [ret |-> NoneV, dev |-> NoDevice, msgs |-> <<>>]
    ELSE LET dev == Head(devices)
         IN  IF dev.valid /\ dev.lacks = "yes"
             THEN [ret |-> StrV(dev.text), dev |-> dev, msgs |-> <<>>]
             ELSE LET r == get_device(Tail(devices))
                  IN  [r EXCEPT !.msgs = Skipped(dev) \o @]

\* lines 722-725: the rows of the confirmation dialog
ConfirmItems ==
    <<StrItem("No. Select a different device."),
      StrItem("Yes. Permanently delete all data.")>>

\* a select entered with the given items, cursor_index 0, the calls in outer
\* waiting for it
Entered(items, outer) ==
    [NoSel EXCEPT !.items = items, !.outer = outer]

\* lines 639-642 and 654-655: the cursor after a down or an up key
Moved(s, key) ==
    [s EXCEPT !.cursor_index =
        Clamp(IF key \in {"j", "KEY_DOWN"} THEN @ + 1 ELSE @ - 1, s.items),
              !.frames = @ + 1]

\* get_device returns: every select has returned
DeviceReturns(ret, consent, msgs) ==
    /\ Becomes(Published(DrainAll(Channel), msgs), app, calls \o SelectCalls,
               proc)
    /\ sel' = [(IF sel.outer = <<>> THEN sel ELSE sel.outer[1])
                 EXCEPT !.ret = IF ret = NoneV THEN ReturnedNone
                                ELSE Returned(@.index), !.outer = <<>>]
    /\ op' = [name |-> "get_device", ret |-> ret, consent |-> consent,
              auto |-> FALSE,
              dev |-> LET s == IF sel.outer = <<>> THEN sel ELSE sel.outer[1]
                      IN  s.items[s.cursor_index + 1]]
    /\ pc' = "device_done"

\* lines 690-703 and 732: lsblk fails or lists no device, or the select of
\* the devices is entered
GetDeviceCall ==
    /\ pc = "get_device"
    /\ \E devices \in DeviceLists \cup {<<>>} :
         IF devices = <<>>
         THEN /\ Becomes(Published(Channel, <<error("Not enough devices listed")>>),
                         app, calls, proc)
              /\ op' = [name |-> "get_device", ret |-> NoneV,
                        consent |-> FALSE, auto |-> FALSE, dev |-> NoDevice]
              /\ pc' = "device_done"
              /\ UNCHANGED sel
         ELSE /\ sel' = Entered(devices, <<>>)
              /\ pc' = "devices"
              /\ op' = [name |-> "select"]
              /\ UNCHANGED <<log, chan, app, calls, proc>>
    /\ UNCHANGED <<value, file, arg, nOps, dumped, term>>

\* lines 732-747 with 705-730: a key read by the select of the devices.
\* The confirm key calls interactive_device_validator, which rejects a
\* device that is not valid, accepts one that lacks partitions, and else
\* enters the select of the confirmation dialog
DeviceKey ==
    /\ pc = "devices"
    /\ sel.frames < MaxFrames
    /\ \E key \in Keys :
         LET dev == sel.items[sel.cursor_index + 1]
         IN  CASE key \in {"j", "KEY_DOWN", "k", "KEY_UP"} ->
                    /\ sel' = Moved(sel, key)
                    /\ Becomes(DrainAll(Channel), app, calls \o SelectCalls, proc)
                    /\ op' = [name |-> "key", key |-> key]
                    /\ pc' = "devices"
               [] key = "q" ->
                    DeviceReturns(NoneV, FALSE,
                                  <<error("Failed to select a device")>>)
               [] key \in {";", "ENTER"} ->
                    IF ~dev.valid
                    THEN DeviceReturns(NoneV, FALSE,
                           <<error("The selected device does not meet the minimum requirements for installation"),
                             error("Failed to select a device")>>)
                    ELSE IF dev.lacks = "yes"
                    THEN DeviceReturns(StrV(dev.text), FALSE, <<>>)
                    ELSE /\ sel' = Entered(ConfirmItems,
                                           <<[sel EXCEPT !.frames = @ + 1]>>)
                         /\ Becomes(Published(DrainAll(Channel),
                                      <<IF dev.lacks = "no"
                                        THEN warning("Partitions found on device", "")
                                        ELSE error("Failed to use lsblk to list partitions on device")>>),
                                    app, calls \o SelectCalls, proc)
                         /\ op' = [name |-> "select"]
                         /\ pc' = "confirm"
               [] OTHER ->
                    /\ sel' = [sel EXCEPT !.frames = @ + 1]
                    /\ Becomes(DrainAll(Channel), app,
                               calls \o SelectCalls \o HelpCalls, proc)
                    /\ op' = [name |-> "key", key |-> key]
                    /\ pc' = "devices"
    /\ UNCHANGED <<value, file, arg, nOps, dumped, term>>

\* lines 720-728: a key read by the select of the confirmation dialog; it
\* returns to the validator, which returns selection_index == 1 to the
\* select of the devices, which returns to get_device
ConfirmKey ==
    /\ pc = "confirm"
    /\ sel.frames < MaxFrames
    /\ \E key \in Keys :
         LET dev == sel.outer[1].items[sel.outer[1].cursor_index + 1]
         IN  CASE key \in {"j", "KEY_DOWN", "k", "KEY_UP"} ->
                    /\ sel' = Moved(sel, key)
                    /\ Becomes(DrainAll(Channel), app, calls \o SelectCalls, proc)
                    /\ op' = [name |-> "key", key |-> key]
                    /\ pc' = "confirm"
               [] key = "q" ->
                    DeviceReturns(NoneV, FALSE,
                                  <<error("Failed to select a device")>>)
               [] key \in {";", "ENTER"} ->
                    IF sel.cursor_index = 1
                    THEN DeviceReturns(StrV(dev.text), TRUE, <<>>)
                    ELSE DeviceReturns(NoneV, FALSE,
                                       <<error("Failed to select a device")>>)
               [] OTHER ->
                    /\ sel' = [sel EXCEPT !.frames = @ + 1]
                    /\ Becomes(DrainAll(Channel), app,
                               calls \o SelectCalls \o HelpCalls, proc)
                    /\ op' = [name |-> "key", key |-> key]
                    /\ pc' = "confirm"
    /\ UNCHANGED <<value, file, arg, nOps, dumped, term>>

\* the automatic get_device(min_size), lines 228-253: list_all_devices
\* fails, or the devices are searched in the order lsblk lists them
GetDeviceAuto ==
    /\ pc = "get_device"
    /\ \E devices \in DeviceLists \cup {<<>>} :
         LET r == IF devices = <<>>
                  THEN [ret |-> NoneV, dev |-> NoDevice,
                        msgs |-> <<error("Failed to get device information from lsblk"),
                                   error("Failed to list devices")>>]
                  ELSE get_device(devices)
         IN  /\ Becomes(Published(Channel, r.msgs), app, calls, proc)
             /\ op' = [name |-> "get_device", ret |-> r.ret,
                       consent |-> FALSE, auto |-> TRUE, dev |-> r.dev]
    /\ pc' = "device_done"
    /\ UNCHANGED <<value, file, arg, nOps, dumped, term, sel>>

DeviceInit ==
    /\ pc = "get_device"
    /\ sel = NoSel
    /\ log \in {<<>>, <<warning("pending", "")>>}
    /\ chan = [NoChan EXCEPT !.published = log]
    /\ term = [NoTerm EXCEPT !.LINES = MaxTermLines, !.COLS = MaxTermCols]
    /\ app = Viewport([NoApp EXCEPT !.made = TRUE], term)
    /\ calls = <<>>
    /\ proc = [NoProc EXCEPT !.atexit = <<"cleanup">>]
    /\ op = [name |-> "none"]
    /\ value = Defaults
    /\ file = Absent
    /\ arg = [interactive |-> TRUE]
    /\ nOps = 0
    /\ dumped = NotDumped

DeviceNext == GetDeviceCall \/ DeviceKey \/ ConfirmKey \/ GetDeviceAuto

SpecDevice == DeviceInit /\ [][DeviceNext]_vars

----------------------------------------------------------------------------
(* Properties *)

Accepted(f, v) == Validate(ValidatorOf(f), Str(v)).ok

ItemValue(doc, i) == FromJson(doc.items[i].jv)

\* C1 (Spec): every Field holds its default or a value whose string form its
\* validator accepts; a set returns what the validator said, stores the value
\* when it accepted and leaves every stored value as it was when it rejected,
\* also for the sets made by a load.
C1_FieldHoldsValidated ==
    /\ \A f \in FieldNames : value[f] = Defaults[f] \/ Accepted(f, value[f])
    /\ op.name = "set" =>
         /\ op.ret = Accepted(op.field, op.given)
         /\ op.ret => value = [op.old EXCEPT ![op.field] = op.given]
         /\ ~op.ret => value = op.old
    /\ (op.name = "load" /\ file.kind = "object") =>
         \A i \in 1..Len(file.items) :
            (/\ file.items[i].key \in FieldNames
             /\ ~Accepted(file.items[i].key, ItemValue(file, i)))
            => value[file.items[i].key] = op.old[file.items[i].key]

\* a rejected set on a field that an earlier set had changed
C1_Witness ==
    /\ op.name = "set"
    /\ ~op.ret
    /\ op.old[op.field] # Defaults[op.field]
    /\ value[op.field] = op.old[op.field]

\* the constraints of each validator in the order it tests them: whether the
\* text breaks the constraint, and the error text that names it
Constraints(kind, s) ==
    CASE kind = "numeric" ->
           <<[broken |-> ~isnumeric(s), text |-> "The given value is not numeric"]>>
      [] kind = "boot_label" ->
           <<[broken |-> Len(s) = 0,
              text |-> "Boot labels must contain at least one character"],
             [broken |-> ~(isprintable(s) /\ isascii(s)),
              text |-> "Boot labels cannot contain non-printable or non-ascii characters"]>>
      [] kind = "hostname" ->
           <<[broken |-> Len(s) = 0,
              text |-> "Hostnames must contain at least one character"],
             [broken |-> Len(s) > HostnameMaxLen,
              text |-> "Hostnames cannot be longer than 64 characters"],
             [broken |-> ~(islower(Remove(s, "-")) /\ isalnum(Remove(s, "-"))),
              text |-> "Hostnames may only contain lowercase letters, numbers, and hyphens"]>>
      [] kind = "name" ->
           <<[broken |-> Len(s) = 0,
              text |-> "Names must contain at least one character"],
             [broken |-> isnumeric(s), text |-> "Names cannot be entirely numeric"],
             [broken |-> startswith(s, "-"), text |-> "Names cannot start with a hyphen"],
             [broken |-> Len(s) > NameMaxLen,
              text |-> "Names cannot be longer than 32 characters"],
             [broken |-> ~isalnum(Remove(Remove(s, "-"), "_")),
              text |-> "Names may only contain letters, numbers, underscores, and hyphens"]>>
      [] kind = "password" ->
           <<[broken |-> Len(s) = 0,
              text |-> "Passwords must contain at least one character"],
             [broken |-> ~(isprintable(s) /\ isascii(s)),
              text |-> "Passwords cannot contain non-printable or non-ascii characters"]>>
      [] OTHER -> <<>>

\* C2 (SpecValidators): a constrained validator that rejects has published
\* exactly one message, of level error, whose text names the first constraint
\* the text breaks; one that accepts has published nothing, and the text
\* breaks no constraint.
C2_OneErrorPerRejection ==
    (pc = "done" /\ op.name = "validate" /\ op.kind \in ConstrainedValidators) =>
        LET cs == Constraints(op.kind, arg)
        IN  IF op.ret
            THEN log = <<>> /\ \A i \in 1..Len(cs) : ~cs[i].broken
            ELSE /\ Len(log) = 1
                 /\ log[1].level = "error"
                 /\ \E i \in 1..Len(cs) :
                       /\ cs[i].broken
                       /\ log[1].raw = cs[i].text
                       /\ \A j \in 1..(i - 1) : ~cs[j].broken

\* a name that breaks two constraints at once, rejected with one message
C2_Witness ==
    /\ Called("name")
    /\ arg = <<"-", "!">>
    /\ ~op.ret
    /\ Len(log) = 1

C3Alphabet == {"a", "A", "1", "-", "!"}

HostnameReference(s) ==
    /\ s # <<>>
    /\ Len(s) <= HostnameMaxLen
    /\ \A c \in Chars(Remove(s, "-")) : IsLowerChar(c) \/ IsDecimalChar(c)

\* C3 (SpecValidators): over lowercase and uppercase letters, digits, the
\* hyphen and one other symbol, the hostname validator accepts a text exactly
\* when it is non-empty, at most 64 long and, hyphens removed, all lowercase
\* letters and digits.
C3_HostnameMatchesReference ==
    (Called("hostname") /\ Chars(arg) \subseteq C3Alphabet) =>
        (op.ret <=> HostnameReference(arg))

\* C4 (SpecValidators): the numeric validator accepts a text exactly when all
\* of its characters are decimal digits.
C4_NumericMatchesReference ==
    Called("numeric") => (op.ret <=> \A c \in Chars(arg) : IsDecimalChar(c))

\* C5 (Spec): after a successful set the stored value has one of the types
\* the Field was declared with.
C5_StoredValueIsTyped ==
    (op.name = "set" /\ op.ret) => value[op.field].t \in DeclaredTypes(op.field)

\* C6 (SpecRoundTrip): the document a successful dump writes has exactly the
\* ten field names as keys, each with that field's value.
C6_DumpHasEveryField ==
    (op.name = "dump" /\ op.ret) =>
        /\ file.kind = "object"
        /\ DocKeys(file) = FieldNames
        /\ \A i \in 1..Len(file.items) :
              ItemValue(file, i) = dumped.value[file.items[i].key]

\* C7 (SpecRoundTrip): loading, in a new process, the document a dump wrote
\* gives a Profile whose every field equals the dumped one.
C7_DumpLoadRoundTrip ==
    (pc = "loaded" /\ dumped.ok) =>
        /\ op.ret = "profile"
        /\ \A f \in FieldNames : value[f] = dumped.value[f]

KnownKeysValid(doc) ==
    \A i \in 1..Len(doc.items) :
        doc.items[i].key \in FieldNames
        => Accepted(doc.items[i].key, ItemValue(doc, i))

WarnedAbout(key) ==
    \E n \in 1..Len(op.published) :
        op.published[n].level = "warning" /\ op.published[n].key = key

\* C8 (SpecLoad): a JSON object whose known keys hold valid values loads to a
\* Profile whatever other keys it has: each key that is no field name gets a
\* warning, the known keys are applied and no other field changes.
C8_UnknownKeysOnlyWarn ==
    (pc = "loaded" /\ file.kind = "object" /\ KnownKeysValid(file)) =>
        /\ op.ret = "profile"
        /\ \A k \in DocKeys(file) \ FieldNames : WarnedAbout(k)
        /\ \A f \in FieldNames \ DocKeys(file) : value[f] = op.old[f]
        /\ \A i \in 1..Len(file.items) :
              file.items[i].key \in FieldNames
              => value[file.items[i].key] = ItemValue(file, i)

\* C9 (SpecLoad): a first load of a JSON object of known keys returns a
\* Profile; each key whose value the validator rejects gets a warning and
\* keeps its default, each other key is applied.
C9_InvalidValuesOnlyWarn ==
    (/\ pc = "loaded"
     /\ nOps = 1
     /\ file.kind = "object"
     /\ DocKeys(file) \subseteq FieldNames) =>
        /\ op.ret = "profile"
        /\ \A i \in 1..Len(file.items) :
              LET key == file.items[i].key
              IN  IF Accepted(key, ItemValue(file, i))
                  THEN value[key] = ItemValue(file, i)
                  ELSE WarnedAbout(key) /\ value[key] = Defaults[key]

\* C10 (SpecLoad): after a load that returns a Profile, every field the
\* document does not name holds its default, whatever was set before.
C10_MissingKeysKeepDefault ==
    (pc = "loaded" /\ op.ret = "profile") =>
        \A f \in FieldNames \ DocKeys(file) : value[f] = Defaults[f]

\* C11 (SpecLoad): a load that returns no Profile has changed no Field value:
\* the Fields, which the default Profile the caller keeps shares with every
\* other Profile, hold what they held before the load.
C11_FailedLoadChangesNothing ==
    (pc = "loaded" /\ op.ret = "none") => value = op.old

\* C12 (SpecLog): the messages put before the first drain come back from the
\* drains in the order they were put, whatever their levels; a drain of an
\* empty queue returns None and changes nothing; a drain is always possible.
C12_DrainsInPublicationOrder ==
    /\ \A i \in 1..Len(chan.drained) :
          i <= chan.mark => chan.drained[i] = chan.published[i]
    /\ (op.name = "drain" /\ op.before = <<>>) =>
          op.ret = <<>> /\ log = <<>>
    /\ (op.name = "drain" /\ op.before # <<>>) => op.ret = <<Head(op.before)>>
    /\ pc = "channel" => ENABLED GetNextLog

\* two messages of different levels, put before the first drain, have been
\* drained and a further drain found the queue empty
C12_Witness ==
    /\ pc = "channel"
    /\ chan.mark = 2
    /\ Len(chan.drained) = 2
    /\ chan.drained[1].level = "verbose"
    /\ chan.drained[2].level = "error"
    /\ op.name = "drain"
    /\ op.before = <<>>

\* C13 (SpecLog): with several producers and one consumer, in any
\* interleaving, a put appends its message and is possible whenever the
\* producer has one to put; every message put is either still queued or was
\* drained, exactly once; and each producer's messages are in the order it
\* put them.
C13_NoneLostNoneTwice ==
    LET kept == chan.drained \o log
    IN  /\ Len(kept) = Len(chan.published)
        /\ \A p \in Producers :
              /\ Len(FromProducer(kept, p)) = Len(FromProducer(chan.published, p))
              /\ \A i \in 1..Len(FromProducer(kept, p)) :
                    FromProducer(kept, p)[i].raw = <<p, i>>
        /\ op.name = "publish" => log = Append(op.before, op.msg)
        /\ (pc = "channel" /\ Len(chan.published) < MaxPublished) =>
              ENABLED PublishError

\* both producers have put, a drain ran between the puts, and part of what
\* was put is drained while the rest is queued
C13_Witness ==
    /\ pc = "channel"
    /\ chan.mark = 1
    /\ Len(chan.published) = 3
    /\ chan.published[1].raw[1] = "p1"
    /\ chan.published[2].raw[1] = "p2"
    /\ chan.published[3].raw[1] = "p1"
    /\ Len(chan.drained) = 2
    /\ Len(log) = 1

\* C14 (SpecMain): when the process has ended, every message that was
\* published has been drained, once each and in order: none is left on the
\* queue.
C14_AllDrainedBeforeExit ==
    proc.exited => (chan.drained = chan.published /\ log = <<>>)

Count(seq, x) == Cardinality({i \in 1..Len(seq) : seq[i] = x})

\* how often the calls of part occur in seq one after the other
Occurrences(seq, part) ==
    Cardinality({i \in 0..(Len(seq) - Len(part)) :
                   SubSeq(seq, i + 1, i + Len(part)) = part})

\* the calls made before the size was looked at
BeforeCheck ==
    SubSeq(calls, 1, (CHOOSE i \in 1..Len(calls) : calls[i] = "check size") - 1)

Range(seq) == {seq[i] : i \in 1..Len(seq)}

\* C15 (SpecMain): over the cleanup calls made on one session (by __init__
\* on a small terminal, at the end of interactive_conf, by the exit hook) no
\* restore call is made a second time: once a cleanup has restored the
\* terminal, the exit hook changes neither the object nor the terminal.
C15_CleanupIdempotent ==
    /\ \A c \in Range(RestoreCalls) \ {"curs_set(1)"} : Count(calls, c) <= 1
    /\ app.clean => Occurrences(calls, RestoreCalls) = 1
    /\ (op.name = "exit" /\ proc.atexit # <<>> /\ op.app.clean) =>
          app = op.app /\ calls = op.calls

\* the exit hook ran after interactive_conf had cleaned up at its end and
\* the installation had begun
C15_Witness ==
    /\ proc.exited
    /\ proc.steps # <<>>
    /\ proc.atexit # <<>>
    /\ op.app.clean
    /\ ~TooSmall(term)

\* C16 (SpecMain): when the process has ended after CursesApp() was made, by
\* whichever way, the terminal has been restored exactly once and nothing was
\* done to it afterwards; an exit by SIGINT or SIGTERM has exit code 1.
C16_RestoredOnceOnExit ==
    (proc.exited /\ app.made) =>
        /\ app.clean
        /\ Occurrences(calls, RestoreCalls) = 1
        /\ Count(calls, "endwin") = 1
        /\ SubSeq(calls, Len(calls) - Len(RestoreCalls) + 1, Len(calls))
             = RestoreCalls
        /\ op.cause = "signal" => proc.code = 1

\* C17 as claimed (SpecSession): on a terminal of fewer than 12 lines or
\* fewer than 44 columns CursesApp() ends not good and cleaned up, nothing
\* was drawn and no window was made before the size was looked at, and
\* interactive_conf returns None without a select or an input.
C17_SizeCheckedBeforeDrawing ==
    (app.made /\ TooSmall(term)) =>
        /\ ~app.good
        /\ app.clean
        /\ Range(BeforeCheck) \cap (DrawingCalls \cup NewWindowCalls) = {}
        /\ pc \in {"conf_none", "exited"}
        /\ "screen.getkey" \notin Range(calls)

\* C18 (SpecSession): on a terminal of at least 12 lines and 44 columns the
\* viewport (self.lines by self.cols, the bordered region) has at least 10
\* lines and 44 columns, lies within the terminal, and no size or origin of
\* it or of the window inside it is negative.
C18_ViewportAtLeastMinimum ==
    (app.made /\ term.LINES >= 12 /\ term.COLS >= 44) =>
        /\ app.lines >= 10
        /\ app.cols >= 44
        /\ app.line_origin >= 0 /\ app.col_origin >= 0
        /\ app.line_origin + app.lines <= term.LINES
        /\ app.col_origin + app.cols <= term.COLS
        /\ app.win[1].nlines > 0 /\ app.win[1].ncols > 0
        /\ app.win[1].begin_y >= 0 /\ app.win[1].begin_x >= 0

\* a terminal one line and one column past where the border reaches its cap
C18_Witness ==
    /\ app.good
    /\ term.LINES = (max_border_lines * 2) + min_lines + 1
    /\ term.COLS = (max_border_cols * 2) + min_cols + 1

\* C19 (SpecSession): on a terminal of exactly 12 lines and 44 columns
\* CursesApp() ends good, with self.lines = 12 and self.cols = 44.
C19_MinimumTerminal ==
    (app.made /\ term.LINES = 12 /\ term.COLS = 44) =>
        /\ app.lines = 12
        /\ app.cols = 44
        /\ app.line_origin = 0 /\ app.col_origin = 0
        /\ op.name = "init" => (app.good /\ pc = "menu")

\* CursesApp() has just returned on the 12 by 44 terminal
C19_Witness ==
    /\ op.name = "init"
    /\ op.good
    /\ term.LINES = 12
    /\ term.COLS = 44

\* C20 (SpecSelect): a select given no item returns None, and from its call
\* to its return it makes no curses call: nothing is drawn, no key is read.
C20_EmptySelectReturnsNone ==
    (pc # "call" /\ sel.items = <<>>) =>
        /\ pc = "returned"
        /\ sel.ret = ReturnedNone
        /\ calls = <<>>
        /\ sel.frames = 0

\* a select given the empty list has returned
C20_Witness ==
    /\ pc = "returned"
    /\ sel.items = <<>>
    /\ sel.ret.done

DownKeys == {"j", "KEY_DOWN"}
UpKeys == {"k", "KEY_UP"}

\* cursor_index is the index of one of the items
InRange(i, items) == 0 <= i /\ i < Len(items)

\* C21 (SpecSelect): in a select over N >= 1 items whose cursor is on an
\* item, a down key moves the cursor one down and an up key one up, except
\* that down on the last item and up on the first leave it where it is; the
\* cursor stays on an item under every sequence of keys.
C21_CursorMovesByOneClamped ==
    LET N == Len(sel.items)
    IN  /\ (N >= 1 /\ InRange(sel.first, sel.items))
            => InRange(sel.cursor_index, sel.items)
        /\ (op.name = "key" /\ InRange(op.old, sel.items)) =>
             /\ op.key \in DownKeys =>
                  sel.cursor_index = IF op.old = N - 1 THEN N - 1
                                     ELSE op.old + 1
             /\ op.key \in UpKeys =>
                  sel.cursor_index = IF op.old = 0 THEN 0 ELSE op.old - 1

\* down on the last of two items, after the cursor had moved down from the
\* first
C21_Witness ==
    /\ op.name = "key"
    /\ op.key \in DownKeys
    /\ Len(sel.items) = 2
    /\ sel.first = 0
    /\ op.old = 1
    /\ sel.cursor_index = 1

ConfirmKeys == {";", "ENTER"}

\* C22 (SpecSelect): the quit key makes select return None at once and the
\* validator is not called; the confirm key, the cursor being on an item,
\* calls the validator once, with that item, and select returns at once: the
\* cursor index when the validator accepted, None when it rejected.  No
\* select calls the validator more than once.
C22_QuitAndConfirm ==
    /\ Len(sel.validated) <= 1
    /\ (op.name = "key" /\ op.key = "q") =>
         /\ pc = "returned"
         /\ sel.ret = ReturnedNone
         /\ sel.validated = <<>>
    /\ (op.name = "key" /\ op.key \in ConfirmKeys /\ InRange(op.old, sel.items)) =>
         /\ pc = "returned"
         /\ sel.validated = <<sel.items[op.old + 1].text>>
         /\ sel.ret = IF sel.items[op.old + 1].text \in sel.accepts
                      THEN Returned(op.old)
                      ELSE ReturnedNone
    /\ (pc # "returned" \/ op.name # "key" \/ op.key \notin ConfirmKeys) =>
         sel.validated = <<>>

\* the confirm key on the second item, which the validator rejects while it
\* would accept the first
C22_Witness ==
    /\ op.name = "key"
    /\ op.key \in ConfirmKeys
    /\ op.old = 1
    /\ Len(sel.items) = 2
    /\ sel.items[1].text \in sel.accepts
    /\ sel.validated = <<sel.items[2].text>>
    /\ sel.ret = ReturnedNone
    /\ pc = "returned"

\* C23 (SpecMain): interactive_conf returns the Profile only with a device
\* set.  The row "Begin Installation" chosen with no device set asks for one
\* with get_device; when that yields none the menu is shown again, and the
\* Profile is returned only when it was asked for no device because one was
\* set, or the device asked for was given and stored.
C23_ReturnsOnlyWithDevice ==
    /\ (arg.interactive /\ pc \in {"check", "install"})
          => value["device"] # NoneV
    /\ (op.name = "menu" /\ op.row = "begin") =>
         /\ op.asked <=> op.had = NoneV
         /\ pc = "menu" => (op.asked /\ op.got = NoneV /\ value["device"] = NoneV)
         /\ pc = "check" =>
              /\ value["device"] # NoneV
              /\ op.asked => value["device"] = op.got
              /\ ~op.asked => value["device"] = op.had

\* the row chosen with no device set, the selection failed, and the menu
\* is shown again
C23_Witness ==
    /\ op.name = "menu"
    /\ op.row = "begin"
    /\ op.asked
    /\ op.got = NoneV
    /\ pc = "menu"
    /\ value["device"] = NoneV

\* C24 (SpecMain): "q" in the menu makes interactive_conf return None with
\* no installation step run, and the one step the process takes from there
\* is its exit with code 1, again with no installation step run; nothing
\* happens after the exit.
C24_CancelNeverInstalls ==
    [][/\ (pc = "menu" /\ pc' = "conf_none") =>
            (op'.name = "menu" /\ op'.row = "cancel" /\ proc'.steps = <<>>)
       /\ pc = "conf_none" =>
            /\ pc' = "exited"
            /\ proc'.exited
            /\ proc'.code = 1
            /\ proc'.steps = <<>>
       /\ pc = "exited" => UNCHANGED vars]_vars

\* the exit after "q" in the menu: the session was still open when the
\* exit began, the code is 1 and no step has run
C24_Witness ==
    /\ pc = "exited"
    /\ op.name = "exit"
    /\ op.cause = "quit"
    /\ op.app.good
    /\ ~op.app.clean
    /\ proc.code = 1
    /\ proc.steps = <<>>

\* the order of the required steps, the unmount first
RequiredOrder ==
    <<"umount", "fdisk", "mkfs.fat", "mkfs.ext4", "mount root", "mount boot",
      "sync", "pacstrap", "genfstab", "write fstab", "copy script",
      "arch-chroot", "final umount">>

StepName(step) ==
    IF step \in {"pacman -Sy archlinux-keyring", "pacman -Sy"} THEN "sync"
    ELSE step

\* the required steps among those run, with what each reported
RECURSIVE RequiredRun(_)
RequiredRun(steps) ==
    IF steps = <<>> THEN <<>>
    ELSE LET rest == RequiredRun(Tail(steps))
             name == StepName(Head(steps).step)
         IN  IF \E i \in 1..Len(RequiredOrder) : RequiredOrder[i] = name
             THEN <<[step |-> name, result |-> Head(steps).result]>> \o rest
             ELSE rest

IsPrefix(s, t) == Len(s) <= Len(t) /\ \A i \in 1..Len(s) : s[i] = t[i]

\* C25 (SpecInstall): the required steps run in the one order unmount,
\* partition, boot and root filesystem, mount root and boot, sync, install,
\* generate and write fstab, copy, chroot, final unmount, the first unmount
\* being left out when no mountpoint is listed; a required step that did
\* not succeed is the last step run and the exit code is then 1; the exit
\* code is 0 only when every required step after the first unmount has run
\* and succeeded.
C25_RequiredStepsInOrder ==
    LET R == RequiredRun(proc.steps)
        names == [i \in 1..Len(R) |-> R[i].step]
    IN  /\ IsPrefix(names, RequiredOrder) \/ IsPrefix(names, Tail(RequiredOrder))
        /\ \A i \in 1..Len(R) :
              R[i].result # "ok" =>
                 /\ i = Len(R)
                 /\ proc.steps[Len(proc.steps)].step \in
                       {R[i].step, "pacman -Sy archlinux-keyring", "pacman -Sy"}
                 /\ proc.exited
                 /\ proc.code = 1
        /\ (proc.exited /\ proc.code = 0) =>
              /\ \A i \in 1..Len(R) : R[i].result = "ok"
              /\ \A j \in 2..Len(RequiredOrder) :
                    \E i \in 1..Len(R) : R[i].step = RequiredOrder[j]
        /\ ~proc.exited => proc.steps = <<>>

\* mounting the boot partition failed after the probe, the unmount and the
\* four steps before it had succeeded, and the process has exited with code 1
C25_Witness ==
    /\ proc.exited
    /\ proc.code = 1
    /\ Len(proc.steps) = 7
    /\ proc.steps[2] = [step |-> "umount", result |-> "ok"]
    /\ proc.steps[7] = [step |-> "mount boot", result |-> "failed"]
    /\ \A i \in 1..6 : proc.steps[i].result = "ok"
    /\ log # <<>>
    /\ log[Len(log)] = error("Failed to mount")

C27_OnePrimitiveActive ==
    sel.outer = <<>>

\* C28 (SpecSelect): every iteration of the loop of select reaches the key
\* read, whether or not the frame fits the window: after an iteration the
\* call is at screen.getkey or has returned.
C28_EveryIterationReadsKey ==
    op.name = "frame" => pc \in {"key", "returned"}

\* the text without its last character; the empty text stays empty
Erased(text) == IF text = <<>> THEN <<>> ELSE SubSeq(text, 1, Len(text) - 1)

\* C29 (SpecInput): in input a printable character key adds its character
\* to the response, the erase key takes the last character off (nothing off
\* an empty response), every key that is none of these nor the confirm key
\* leaves the response as it was, and the Field keeps its value until the
\* confirm key.
C29_OnlyPrintableAndEraseChangeBuffer ==
    /\ (op.name = "frame" \/ (op.name = "key" /\ op.key # "ENTER")) =>
         value[arg.field] = op.had
    /\ (op.name = "key" /\ op.key = "ENTER") =>
         /\ pc = "returned"
         /\ value[arg.field] = IF Accepted(arg.field, StrV(op.old))
                               THEN StrV(op.old) ELSE op.had
    /\ (op.name = "key" /\ op.key # "ENTER") =>
         sel.response =
            IF op.key \notin KeyNames /\ IsPrintableChar(op.key)
            THEN Append(op.old, op.key)
            ELSE IF op.key = "KEY_BACKSPACE" THEN Erased(op.old)
            ELSE op.old

\* C30 (SpecSelect): an index that select returns is the index of one of
\* the items, 0 <= index < N, whatever cursor_index the caller passed and
\* whatever keys were read.
C30_ReturnedIndexInRange ==
    (pc = "returned" /\ sel.ret.done /\ ~sel.ret.none)
       => InRange(sel.ret.index, sel.items)

\* C31 (SpecMain): when the device row of the menu was chosen and the device
\* dialog gave no device (cancelled or failed), the device Field holds the
\* value it had before the row was chosen.
C31_CancelledDeviceRowKeepsDevice ==
    (op.name = "menu" /\ op.row = "device" /\ op.got = NoneV)
        => value["device"] = op.had

\* C32 (SpecDevice): a device that get_device or CursesApp.get_device
\* returns passed the size check, and either device_lacks_partitions said
\* True of it or the operator confirmed the "Yes" row of the confirmation
\* dialog; the automatic get_device never counts as consent.
C32_NoPartitionedDeviceWithoutConsent ==
    (op.name = "get_device" /\ op.ret # NoneV)
        => /\ op.ret = StrV(op.dev.text)
           /\ op.dev.valid
           /\ op.dev.lacks = "yes" \/ op.consent
           /\ op.auto => ~op.consent

\* the automatic search passed over a device with partitions and returned a
\* later one
C32_WitnessAutomatic ==
    /\ op.name = "get_device"
    /\ op.auto
    /\ op.ret = StrV(PathOf(2))
    /\ \E m \in 1..Len(log) : log[m].raw = "Partitions found on device"

\* the operator confirmed the "Yes" row for a device with partitions
C32_Witness ==
    /\ op.name = "get_device"
    /\ ~op.auto
    /\ op.ret # NoneV
    /\ op.dev.lacks = "no"
    /\ op.consent

====
